---- MODULE Spec2Model ----
(***************************************************************************)
(* Pipeline orchestration of insite-bash: the Bull queue `pipeline`, the   *)
(* job handlers of pipeline.worker.ts, the pipeline_runs status store and  *)
(* the status query of pipeline.controller.ts.                             *)
(*                                                                         *)
(* A handler is split at its awaits: the select and the write of           *)
(* updatePipelineStatus, the step's work, and the return or throw that     *)
(* hands the job back to the queue.  Writes to the status store succeed    *)
(* in this specification.                                                  *)
(*                                                                         *)
(* The work of the logos, images, achievements and completeness steps is   *)
(* modelled in detail in specifications of their own (LogoSpec,            *)
(* CompletenessSpec, CompletenessRaceSpec, AchievementsSpec), where the    *)
(* step's work runs inside the same handler; determineStrategy is checked  *)
(* on its own in StrategySpec and calculateAchievementScore in ScoreSpec.  *)
(* TopSpec ranks lists longer than the top selection, RerankSpec runs the  *)
(* achievements step twice, and RepeatSpec requests one step several times *)
(* and processes its jobs concurrently.  IngestSpec runs the ingest step   *)
(* more than once, LogoRaceSpec processes two logos jobs at the same time, *)
(* StoreFailureSpec lets a write to the status store fail, and RunSpec is  *)
(* the request handler runPipeline of pipeline.controller.ts.              *)
(***************************************************************************)
EXTENDS Integers, Sequences, FiniteSets, TLC

VARIABLES
    now,        \* Date.now() as last read by queuePipelineStep
    jobs,       \* every job ever added to the queue, in order of addition
    waiting,    \* the queue's wait list: indices into jobs, head first
    runs,       \* table pipeline_runs, in order of created_at
    data,       \* per user: which upstream data exists
    outputs,    \* per user: the steps that have written output
    req,        \* the queueFullPipeline call in progress
    crashes,    \* workers lost so far
    slots,      \* number of jobs the workers process at a time
    pipelines,  \* argument of calculateOverallStatus (status query)
    overall,    \* its result
    companyAssets,  \* table company_assets, in order of insertion
    assets,         \* table assets (logo assets), in order of insertion
    calls,          \* the calls made to the logo providers, in order
    profile,        \* per user: the rows of work_experiences, skills and stories
    placements,     \* table image_placements, in order of insertion
    completeness,   \* table completeness, in order of insertion
    achievements,   \* per user: the rows of table achievements
    rankings,       \* table achievement_rankings, in order of insertion
    frame,          \* per job in a step's work: the local variables of the work
    call            \* a call of a pure function: its argument and its result

logoTables == <<companyAssets, assets, calls>>

completenessTables == <<profile, placements, completeness>>

achievementTables == <<achievements, rankings>>

tables == <<logoTables, completenessTables, achievementTables>>

vars == <<now, jobs, waiting, runs, data, outputs, req, crashes, slots, pipelines, overall,
          tables, frame, call>>

-----------------------------------------------------------------------------
(* Bounds *)

\* the latest reading of the clock
MaxTime == 2
\* queuePipelineStep calls made for one-step requests
MaxJobs == 1
\* one-step calls and full runs of EnqueueSpec
MaxPrior == 2
MaxRuns == 2
\* jobs processed at a time in FullSpec
MaxActive == 1
\* workers lost
MaxCrashes == 2
\* length of the status lists of StatusSpec
MaxLen == 3

-----------------------------------------------------------------------------
(* Program constants *)

Users == {"u1"}

\* queueFullPipeline: const steps = [...]
Steps == <<"ingest", "logos", "achievements", "story", "skills", "images", "completeness">>

StepSet == {Steps[i] : i \in 1..Len(Steps)}

\* defaultJobOptions.attempts
Attempts == 3

\* Bull's default settings.maxStalledCount (the queue sets no `settings`)
MaxStalledCount == 1

MsgNoDoc == "Document ID is required for ingest pipeline"
MsgNoPortrait == "No portrait photo found for user"
MsgTransient == "ETIMEDOUT"

Statuses == {"queued", "pending", "running", "succeeded", "failed", "canceled"}

\* what a parsed resume may contain (runIngestPipeline inserts all three kinds)
Resumes == {{"workExps", "achievements", "skills"}, {"workExps"}}

Max2(a, b) == IF a >= b THEN a ELSE b

-----------------------------------------------------------------------------
(* The status store: pipeline_runs *)

\* .eq('user_id').eq('pipeline_name').order('created_at', desc).limit(1).single()
\* the id (index) of the latest run of (u, s), 0 when there is none
SelectLatest(rs, u, s) ==
    LET ids == {i \in 1..Len(rs) : rs[i].user_id = u /\ rs[i].pipeline_name = s}
    IN  IF ids = {} THEN 0 ELSE CHOOSE i \in ids : \A k \in ids : k <= i

\* new Date().toISOString(): a timestamp is kept as "set"
Timestamp == "set"

Null == "null"

\* error || null
NoError == Null

\* status === 'succeeded' || status === 'failed' ? new Date().toISOString() : null
CompletedAt(status) == IF status \in {"succeeded", "failed"} THEN Timestamp ELSE Null

\* an update that leaves the stored error in place when it is given none
UpdateRun_KeepError(rs, id, status, error) ==
    [rs EXCEPT ![id] = [@ EXCEPT !.status = status,
                                 !.error_message = IF error = Null THEN @ ELSE error,
                                 !.completed_at = CompletedAt(status)]]

\* .update({status, error_message, completed_at}).eq('id', existing.id)
UpdateRun(rs, id, status, error) ==
    [rs EXCEPT ![id] = [@ EXCEPT !.status = status,
                                 !.error_message = error,
                                 !.completed_at = CompletedAt(status)]]

\* .insert({user_id, pipeline_name, status, error_message, started_at, completed_at})
InsertRun(rs, u, s, status, error) ==
    Append(rs, [user_id |-> u, pipeline_name |-> s, status |-> status,
                error_message |-> error, started_at |-> Timestamp,
                completed_at |-> CompletedAt(status)])

\* the write half with the insert taken whatever the select returned
WriteStatus_AlwaysInsert(rs, existing, u, s, status, error) ==
    InsertRun(rs, u, s, status, error)

\* the write half of updatePipelineStatus, given the row its select returned
WriteStatus(rs, existing, u, s, status, error) ==
    IF existing # 0
    THEN UpdateRun(rs, existing, status, error)
    ELSE InsertRun(rs, u, s, status, error)

\* updatePipelineStatus run without interruption
updatePipelineStatus(rs, u, s, status, error) ==
    WriteStatus(rs, SelectLatest(rs, u, s), u, s, status, error)

CountRuns(rs, u, s) ==
    Cardinality({i \in 1..Len(rs) : rs[i].user_id = u /\ rs[i].pipeline_name = s})

-----------------------------------------------------------------------------
(* The status query *)

RECURSIVE LatestPerStep(_, _, _)
\* getPipelineStatus: rows of the user by created_at descending, the first row
\* of each pipeline_name kept (statusMap), in that order
LatestPerStep(rs, u, i) ==
    IF i = 0 THEN <<>>
    ELSE LET r == rs[i]
             newer == {k \in (i+1)..Len(rs) :
                          rs[k].user_id = u /\ rs[k].pipeline_name = r.pipeline_name}
         IN  IF r.user_id = u /\ newer = {}
             THEN <<r>> \o LatestPerStep(rs, u, i - 1)
             ELSE LatestPerStep(rs, u, i - 1)

\* calculateOverallStatus with the failed test ahead of the running test
calculateOverallStatus_FailedFirst(ps) ==
    LET hasRunning == \E i \in 1..Len(ps) : ps[i].status = "running"
        hasFailed == \E i \in 1..Len(ps) : ps[i].status = "failed"
        allSucceeded == \A i \in 1..Len(ps) : ps[i].status = "succeeded"
    IN  IF Len(ps) = 0 THEN "not_started"
        ELSE IF hasFailed THEN "failed"
        ELSE IF hasRunning THEN "running"
        ELSE IF allSucceeded THEN "completed"
        ELSE "pending"

calculateOverallStatus(ps) ==
    LET hasRunning == \E i \in 1..Len(ps) : ps[i].status = "running"
        hasFailed == \E i \in 1..Len(ps) : ps[i].status = "failed"
        allSucceeded == \A i \in 1..Len(ps) : ps[i].status = "succeeded"
    IN  IF Len(ps) = 0 THEN "not_started"
        ELSE IF hasRunning THEN "running"
        ELSE IF hasFailed THEN "failed"
        ELSE IF allSucceeded THEN "completed"
        ELSE "pending"

getPipelineStatus(u) ==
    LET statuses == LatestPerStep(runs, u, Len(runs))
    IN  [userId |-> u, pipelines |-> statuses, overall |-> calculateOverallStatus(statuses)]

-----------------------------------------------------------------------------
(* The queue *)

\* jobId: `${data.userId}-${data.step}-${Date.now()}`
JobId(u, s, t) == <<u, s, t>>

\* the index of the job with this id, 0 when the queue holds none
FindJob(js, id) ==
    LET ids == {i \in 1..Len(js) : js[i].id = id}
    IN  IF ids = {} THEN 0 ELSE CHOOSE i \in ids : TRUE

NewJob(u, s, doc, t) ==
    [id |-> JobId(u, s, t), user |-> u, step |-> s, hasDoc |-> doc,
     state |-> "waiting", pc |-> "idle", existing |-> 0, outcome |-> "none",
     attemptsMade |-> 0, stalledCount |-> 0, wrote |-> "none", absent |-> FALSE]

\* add that puts a second job under an id the queue already holds
AddJob_NoDedup(js, u, s, doc, t) == Append(js, NewJob(u, s, doc, t))

\* pipelineQueue.add(step, data, {jobId}): an id the queue already holds is not added again
AddJob(js, u, s, doc, t) ==
    IF FindJob(js, JobId(u, s, t)) # 0 THEN js ELSE Append(js, NewJob(u, s, doc, t))

AddWaiting(js, w, u, s, t) ==
    IF FindJob(js, JobId(u, s, t)) # 0 THEN w ELSE Append(w, Len(js) + 1)

Live(j) == jobs[j].state \in {"waiting", "active", "delayed"}

Busy == {j \in 1..Len(jobs) : jobs[j].state = "active" /\ jobs[j].pc # "lost"}

\* budget: the queuePipelineStep calls of one-step requests still allowed;
\* fulls: the queueFullPipeline calls still allowed; base: the number of jobs in
\* the queue when the call began; next: the index of the step its loop is at;
\* added[i]: whether its i-th add put a new job into the queue
IdleReq(budget, fulls) ==
    [state |-> "idle", budget |-> budget, fulls |-> fulls, user |-> "none",
     base |-> 0, next |-> 0, jobIds |-> <<>>, added |-> <<>>]

-----------------------------------------------------------------------------
(* The tables and locals of the steps' work, before any step has run *)

\* no row in stories
NoStory == [present |-> FALSE, opener |-> FALSE, narrative |-> FALSE, quote |-> FALSE]

\* a user without work experiences, skills and story
NoProfile == [exps |-> <<>>, skills |-> 0, story |-> NoStory]

NoCall == [fn |-> "none", arg |-> Null, result |-> Null]

InitServices ==
    /\ companyAssets = <<>>
    /\ assets = <<>>
    /\ calls = <<>>
    /\ profile = [u \in Users |-> NoProfile]
    /\ placements = <<>>
    /\ completeness = <<>>
    /\ achievements = [u \in Users |-> <<>>]
    /\ rankings = <<>>
    /\ frame = <<>>
    /\ call = NoCall

-----------------------------------------------------------------------------
(* Initial state *)

Init ==
    /\ now = 1
    /\ jobs = <<>>
    /\ waiting = <<>>
    /\ runs = <<>>
    /\ data \in [Users -> {{}, {"portrait"}}]
    /\ outputs = [u \in Users |-> {}]
    /\ req = IdleReq(MaxJobs, 0)
    /\ crashes = 0
    /\ slots = Len(Steps)
    /\ pipelines = <<>>
    /\ overall = "unset"
    /\ InitServices

-----------------------------------------------------------------------------
(* Requests *)

\* Date.now() read again: the same millisecond as the last reading, or a later one
Clock == {t \in {now, now + 1} : t <= MaxTime}

\* queuePipelineStep, called by runPipeline for a listed step
QueuePipelineStep(u, s, doc, t) ==
    /\ req.state # "adding"
    /\ req.budget > 0
    /\ now' = t
    /\ jobs' = AddJob(jobs, u, s, doc, t)
    /\ waiting' = AddWaiting(jobs, waiting, u, s, t)
    /\ req' = [req EXCEPT !.budget = @ - 1]
    /\ UNCHANGED <<tables, frame, call, runs, data, outputs, crashes, slots, pipelines, overall>>

\* queueFullPipeline is called with a documentId
QueueFullPipeline(u) ==
    /\ req.state # "adding"
    /\ req.fulls > 0
    /\ req' = [req EXCEPT !.state = "adding", !.fulls = @ - 1, !.user = u,
                          !.base = Len(jobs), !.next = 1, !.jobIds = <<>>, !.added = <<>>]
    /\ UNCHANGED <<tables, frame, call, now, jobs, waiting, runs, data, outputs, crashes, slots, pipelines, overall>>

\* one turn of its loop: await queuePipelineStep({userId, documentId, step}), push the id;
\* after the last step the ids are returned
QueueFullPipelineStep(t) ==
    /\ req.state = "adding"
    /\ LET s == Steps[req.next]
       IN  /\ now' = t
           /\ jobs' = AddJob(jobs, req.user, s, TRUE, t)
           /\ waiting' = AddWaiting(jobs, waiting, req.user, s, t)
           /\ req' = [req EXCEPT !.jobIds = Append(@, JobId(req.user, s, t)),
                                 !.added = Append(@, FindJob(jobs, JobId(req.user, s, t)) = 0),
                                 !.next = @ + 1,
                                 !.state = IF req.next = Len(Steps) THEN "returned" ELSE "adding"]
    /\ UNCHANGED <<tables, frame, call, runs, data, outputs, crashes, slots, pipelines, overall>>

-----------------------------------------------------------------------------
(* Workers *)

SetJob(j, r) == [jobs EXCEPT ![j] = r]

\* the queue hands the head of the wait list to a free worker, which enters the handler
Dequeue(j) ==
    /\ waiting # <<>>
    /\ j = Head(waiting)
    /\ Cardinality(Busy) < slots
    /\ waiting' = Tail(waiting)
    /\ jobs' = SetJob(j, [jobs[j] EXCEPT
                    !.state = "active",
                    !.pc = IF jobs[j].step = "completeness" THEN "work" ELSE "selR",
                    !.existing = 0, !.outcome = "none", !.absent = FALSE,
                    !.wrote = "none"])
    /\ UNCHANGED <<tables, frame, call, now, runs, data, outputs, req, crashes, slots, pipelines, overall>>

\* updatePipelineStatus, first await: select the latest run of (user, step)
SelectStep(j) ==
    /\ jobs[j].state = "active"
    /\ jobs[j].pc \in {"selR", "selT"}
    /\ jobs' = SetJob(j, [jobs[j] EXCEPT
                    !.existing = SelectLatest(runs, jobs[j].user, jobs[j].step),
                    !.pc = IF jobs[j].pc = "selR" THEN "wrR" ELSE "wrT"])
    /\ UNCHANGED <<tables, frame, call, now, waiting, runs, data, outputs, req, crashes, slots, pipelines, overall>>

\* a handler that records a work that threw as canceled
TerminalStatus_Canceled(outcome) == IF outcome = "ok" THEN "succeeded" ELSE "canceled"

\* the status and error a handler writes after its work returned or threw
TerminalStatus(outcome) == IF outcome = "ok" THEN "succeeded" ELSE "failed"

TerminalError(outcome) == IF outcome = "ok" THEN NoError ELSE outcome

\* updatePipelineStatus, second await: update the selected row, or insert
WriteStep(j) ==
    /\ jobs[j].state = "active"
    /\ jobs[j].pc \in {"wrR", "wrT"}
    /\ LET jb == jobs[j]
           status == IF jb.pc = "wrR" THEN "running" ELSE TerminalStatus(jb.outcome)
           error == IF jb.pc = "wrR" THEN NoError ELSE TerminalError(jb.outcome)
       IN  /\ runs' = WriteStatus(runs, jb.existing, jb.user, jb.step, status, error)
           /\ jobs' = SetJob(j, [jb EXCEPT
                        !.pc = IF jb.pc = "wrR" THEN "work" ELSE "exit",
                        !.wrote = status])
    /\ UNCHANGED <<tables, frame, call, now, waiting, data, outputs, req, crashes, slots, pipelines, overall>>

\* what the step's work can do, given the job's input and the user's data:
\* outcome: "ok" or the message of the error thrown; absent: the step found the
\* data it needs absent; adds: data inserted; out: output written
StepResult(outcome, absent, adds, out) ==
    [outcome |-> outcome, absent |-> absent, adds |-> adds, out |-> out]

\* handler 'ingest': the documentId check, then runIngestPipeline
IngestWork(doc, d) ==
    IF ~doc
    THEN {StepResult(MsgNoDoc, FALSE, {}, FALSE)}
    ELSE {StepResult(MsgTransient, FALSE, {}, FALSE)}
         \cup {StepResult("ok", FALSE, r, FALSE) : r \in Resumes}

\* runLogoPipeline: no work experiences -> warn and return; per-company errors are caught
LogosWork(d) ==
    IF "workExps" \notin d
    THEN {StepResult("ok", TRUE, {}, FALSE)}
    ELSE {StepResult("ok", FALSE, {}, TRUE)}

\* runAchievementsPipeline: no achievements -> warn and return; enhanceAchievement
\* catches the errors of the model call (the query error it rethrows is a store error)
AchievementsWork(d) ==
    IF "achievements" \notin d
    THEN {StepResult("ok", TRUE, {}, FALSE)}
    ELSE {StepResult("ok", FALSE, {}, TRUE)}

\* runStoryPipeline: no work experiences -> warn and return; generation may throw
StoryWork(d) ==
    IF "workExps" \notin d
    THEN {StepResult("ok", TRUE, {}, FALSE)}
    ELSE {StepResult("ok", FALSE, {}, TRUE), StepResult(MsgTransient, FALSE, {}, FALSE)}

\* runSkillsPipeline: no skills -> warn and return; generation may throw
SkillsWork(d) ==
    IF "skills" \notin d
    THEN {StepResult("ok", TRUE, {}, FALSE)}
    ELSE {StepResult("ok", FALSE, {}, TRUE), StepResult(MsgTransient, FALSE, {}, FALSE)}

\* handler 'images': no portrait -> throw; generateProfessionalImages catches per archetype
ImagesWork(d) ==
    IF "portrait" \notin d
    THEN {StepResult(MsgNoPortrait, TRUE, {}, FALSE)}
    ELSE {StepResult("ok", FALSE, {}, TRUE)}

\* calculateAllCompleteness: every section and every save catches its errors
CompletenessWork(d) == {StepResult("ok", FALSE, {}, TRUE)}

StepWork(s, doc, d) ==
    CASE s = "ingest" -> IngestWork(doc, d)
      [] s = "logos" -> LogosWork(d)
      [] s = "achievements" -> AchievementsWork(d)
      [] s = "story" -> StoryWork(d)
      [] s = "skills" -> SkillsWork(d)
      [] s = "images" -> ImagesWork(d)
      [] s = "completeness" -> CompletenessWork(d)

\* a catch block that rethrows without the failed write
AfterWork_ThrowFirst(s, outcome) ==
    IF s = "completeness" \/ outcome # "ok" THEN "exit" ELSE "selT"

\* where the handler goes after its work: the terminal updatePipelineStatus
\* (in the try for "ok", in the catch before the rethrow otherwise); the
\* completeness handler only logs
AfterWork(s, outcome) == IF s = "completeness" THEN "exit" ELSE "selT"

\* the step's work, between the two status writes
Work(j) ==
    /\ jobs[j].state = "active"
    /\ jobs[j].pc = "work"
    /\ \E r \in StepWork(jobs[j].step, jobs[j].hasDoc, data[jobs[j].user]) :
         /\ jobs' = SetJob(j, [jobs[j] EXCEPT
                        !.outcome = r.outcome, !.absent = r.absent,
                        !.pc = AfterWork(jobs[j].step, r.outcome)])
         /\ data' = [data EXCEPT ![jobs[j].user] = @ \cup r.adds]
         /\ outputs' = [outputs EXCEPT ![jobs[j].user] =
                            IF r.out THEN @ \cup {jobs[j].step} ELSE @]
    /\ UNCHANGED <<tables, frame, call, now, waiting, runs, req, crashes, slots, pipelines, overall>>

\* a retry test that allows one attempt more
AfterFailure_OffByOne(attemptsMade) ==
    IF attemptsMade <= Attempts THEN "delayed" ELSE "failed"

\* a job that exhausted its attempts and keeps its worker
AfterFailure_KeepsWorker(attemptsMade) ==
    IF attemptsMade < Attempts THEN "delayed" ELSE "active"

\* Bull after a handler threw: attemptsMade is incremented; the job is retried
\* after its backoff delay while attempts remain, else it is failed
AfterFailure(attemptsMade) == IF attemptsMade < Attempts THEN "delayed" ELSE "failed"

\* the handler returns (job completed) or rethrows (job failed or retried)
Exit(j) ==
    /\ jobs[j].state = "active"
    /\ jobs[j].pc = "exit"
    /\ jobs' = SetJob(j,
          IF jobs[j].outcome = "ok"
          THEN [jobs[j] EXCEPT !.state = "completed", !.pc = "idle"]
          ELSE [jobs[j] EXCEPT !.state = AfterFailure(jobs[j].attemptsMade + 1),
                               !.attemptsMade = @ + 1,
                               !.pc = "idle"])
    /\ UNCHANGED <<tables, frame, call, now, waiting, runs, data, outputs, req, crashes, slots, pipelines, overall>>

\* the backoff delay of a retried job has elapsed
PromoteDelayed(j) ==
    /\ jobs[j].state = "delayed"
    /\ jobs' = SetJob(j, [jobs[j] EXCEPT !.state = "waiting"])
    /\ waiting' = Append(waiting, j)
    /\ UNCHANGED <<tables, frame, call, now, runs, data, outputs, req, crashes, slots, pipelines, overall>>

\* the worker process executing the job disappears mid-handler
WorkerLost(j) ==
    /\ crashes < MaxCrashes
    /\ jobs[j].state = "active"
    /\ jobs[j].pc # "lost"
    /\ jobs' = SetJob(j, [jobs[j] EXCEPT !.pc = "lost"])
    /\ crashes' = crashes + 1
    /\ UNCHANGED <<tables, frame, call, now, waiting, runs, data, outputs, req, slots, pipelines, overall>>

\* Bull's stalled-job check finds an active job whose lock expired: it goes
\* back to the wait list, or is failed once stalled more than maxStalledCount
\* times; the 'stalled' and 'failed' listeners of pipeline.queue.ts only log
AfterStall(stalledCount) == IF stalledCount > MaxStalledCount THEN "failed" ELSE "waiting"

StalledCheck(j) ==
    /\ jobs[j].state = "active"
    /\ jobs[j].pc = "lost"
    /\ LET st == AfterStall(jobs[j].stalledCount + 1)
       IN  /\ jobs' = SetJob(j, [jobs[j] EXCEPT
                        !.state = st, !.pc = "idle", !.stalledCount = @ + 1])
           /\ waiting' = IF st = "waiting" THEN <<j>> \o waiting ELSE waiting
    /\ UNCHANGED <<tables, frame, call, now, runs, data, outputs, req, crashes, slots, pipelines, overall>>

-----------------------------------------------------------------------------
(* Specification *)

JobIds == 1..Len(jobs)

\* documentId is read by the ingest handler alone
Docs(s) == IF s = "ingest" THEN BOOLEAN ELSE {TRUE}

Next ==
    \/ \E u \in Users, s \in StepSet, t \in Clock :
          \E doc \in Docs(s) : QueuePipelineStep(u, s, doc, t)
    \/ \E j \in JobIds : Dequeue(j)
    \/ \E j \in JobIds : SelectStep(j)
    \/ \E j \in JobIds : WriteStep(j)
    \/ \E j \in JobIds : Work(j)
    \/ \E j \in JobIds : Exit(j)
    \/ \E j \in JobIds : PromoteDelayed(j)
    \/ \E j \in JobIds : WorkerLost(j)
    \/ \E j \in JobIds : StalledCheck(j)

Spec == Init /\ [][Next]_vars

-----------------------------------------------------------------------------
(* Status writes that fail *)

\* updatePipelineStatus, second await, when the store rejects the write: the
\* client returns the error, which is not read (a thrown error is caught and
\* logged), and updatePipelineStatus returns as after a write
WriteStepFails(j) ==
    /\ jobs[j].state = "active"
    /\ jobs[j].pc \in {"wrR", "wrT"}
    /\ jobs' = SetJob(j, [jobs[j] EXCEPT !.pc = IF jobs[j].pc = "wrR" THEN "work" ELSE "exit"])
    /\ UNCHANGED <<tables, frame, call, now, waiting, runs, data, outputs, req, crashes, slots,
                   pipelines, overall>>

NextStoreFailure ==
    \/ Next
    \/ \E j \in JobIds : WriteStepFails(j)

StoreFailureSpec == Init /\ [][NextStoreFailure]_vars

-----------------------------------------------------------------------------
(* A full run: at most MaxPrior one-step requests, then queueFullPipeline,   *)
(* with MaxActive jobs processed at a time and no worker lost                *)

InitFull ==
    /\ now = MaxTime
    /\ jobs = <<>>
    /\ waiting = <<>>
    /\ runs = <<>>
    /\ data \in [Users -> {{}, {"portrait"}}]
    /\ outputs = [u \in Users |-> {}]
    /\ req = IdleReq(0, 1)
    /\ crashes = 0
    /\ slots = MaxActive
    /\ pipelines = <<>>
    /\ overall = "unset"
    /\ InitServices

NextFull ==
    \/ \E u \in Users : QueueFullPipeline(u)
    \/ \E t \in Clock : QueueFullPipelineStep(t)
    \/ \E j \in JobIds : Dequeue(j)
    \/ \E j \in JobIds : SelectStep(j)
    \/ \E j \in JobIds : WriteStep(j)
    \/ \E j \in JobIds : Work(j)
    \/ \E j \in JobIds : Exit(j)
    \/ \E j \in JobIds : PromoteDelayed(j)

FullSpec == InitFull /\ [][NextFull]_vars

\* fair scheduling: a call in progress goes on, a free worker takes the head of
\* the wait list, a handler that can take its next step takes it, and a
\* backoff delay elapses
FairFullSpec ==
    /\ InitFull
    /\ [][NextFull]_vars
    /\ WF_vars(\E t \in Clock : QueueFullPipelineStep(t))
    /\ WF_vars(\E j \in JobIds : Dequeue(j))
    /\ WF_vars(\E j \in JobIds : SelectStep(j))
    /\ WF_vars(\E j \in JobIds : WriteStep(j))
    /\ WF_vars(\E j \in JobIds : Work(j))
    /\ WF_vars(\E j \in JobIds : Exit(j))
    /\ WF_vars(\E j \in JobIds : PromoteDelayed(j))

-----------------------------------------------------------------------------
(* The producer alone: one-step requests and full runs, no job processed *)

InitEnqueue ==
    /\ now = 1
    /\ jobs = <<>>
    /\ waiting = <<>>
    /\ runs = <<>>
    /\ data = [u \in Users |-> {}]
    /\ outputs = [u \in Users |-> {}]
    /\ req = IdleReq(MaxPrior, MaxRuns)
    /\ crashes = 0
    /\ slots = 0
    /\ pipelines = <<>>
    /\ overall = "unset"
    /\ InitServices

NextEnqueue ==
    \/ \E u \in Users, s \in StepSet, t \in Clock :
          \E doc \in Docs(s) : QueuePipelineStep(u, s, doc, t)
    \/ \E u \in Users : QueueFullPipeline(u)
    \/ \E t \in Clock : QueueFullPipelineStep(t)

EnqueueSpec == InitEnqueue /\ [][NextEnqueue]_vars

-----------------------------------------------------------------------------
(* The run request: runPipeline *)

\* Line 120 of pipeline.controller.ts is one line,
\*     // Queue full pipeline\n      if (!documentId) {
\* a comment up to its end: the test of documentId is part of the comment.
\* The statements of the handler are therefore
\*     if (steps && Array.isArray(steps)) { jobIds = []; for (...) {...} }
\*     else { throw new AppError('documentId is required for full pipeline', 400); }
\*     jobIds = await queueFullPipeline(userId, documentId, siteVersionId);
\* followed by the 202 response.

\* the steps a request lists
ListedSteps == {"logos", "story"}

\* the longest step list of a request
MaxListed == 2

\* run requests made
MaxRequests == 2

\* req.body: steps, an array of up to MaxListed steps when present, and
\* whether documentId is present
Bodies ==
    {[hasSteps |-> TRUE, steps |-> l, documentId |-> d] :
        l \in UNION {[1..n -> ListedSteps] : n \in 0..MaxListed}, d \in BOOLEAN}
    \cup {[hasSteps |-> FALSE, steps |-> <<>>, documentId |-> d] : d \in BOOLEAN}

\* no response sent
NoResponse == 0

\* first: the number of jobs in the queue when the request arrived; listed:
\* the ids returned by the queuePipelineStep calls of the handler's loop
IdleRun(budget) ==
    [state |-> "idle", budget |-> budget, fulls |-> 0, user |-> "none",
     base |-> 0, next |-> 0, jobIds |-> <<>>, added |-> <<>>,
     body |-> [hasSteps |-> FALSE, steps |-> <<>>, documentId |-> FALSE],
     first |-> 0, listed |-> <<>>, response |-> NoResponse]

\* the handler after its if statement: queueFullPipeline is called
CallQueueFullPipeline(r, base) ==
    [r EXCEPT !.state = "adding", !.base = base, !.next = 1, !.jobIds = <<>>, !.added = <<>>]

\* POST /pipelines/run: the body is read; with a step list the loop begins
\* (after an empty list the if statement is over); without one the else
\* branch throws the AppError of status 400
RunPipeline(u, body) ==
    /\ req.state \in {"idle", "answered"}
    /\ req.budget > 0
    /\ LET r == [req EXCEPT !.budget = @ - 1, !.user = u, !.body = body,
                            !.first = Len(jobs), !.listed = <<>>, !.jobIds = <<>>,
                            !.added = <<>>, !.next = 1, !.response = NoResponse]
       IN  req' = IF body.hasSteps
                  THEN IF body.steps = <<>>
                       THEN CallQueueFullPipeline(r, Len(jobs))
                       ELSE [r EXCEPT !.state = "listing"]
                  ELSE [r EXCEPT !.state = "answered", !.response = 400]
    /\ UNCHANGED <<tables, frame, call, now, jobs, waiting, runs, data, outputs, crashes,
                   slots, pipelines, overall>>

\* one turn of the handler's loop: await queuePipelineStep({userId, documentId,
\* siteVersionId, step}), push the id
RunPipelineStep(t) ==
    /\ req.state = "listing"
    /\ LET s == req.body.steps[req.next]
           r == [req EXCEPT !.listed = Append(@, JobId(req.user, s, t)), !.next = @ + 1]
       IN  /\ now' = t
           /\ jobs' = AddJob(jobs, req.user, s, req.body.documentId, t)
           /\ waiting' = AddWaiting(jobs, waiting, req.user, s, t)
           /\ req' = IF req.next = Len(req.body.steps)
                     THEN CallQueueFullPipeline(r, Len(jobs'))
                     ELSE r
    /\ UNCHANGED <<tables, frame, call, runs, data, outputs, crashes, slots, pipelines, overall>>

\* one turn of the loop of queueFullPipeline(userId, documentId, siteVersionId)
\* with the documentId of the body
RunPipelineFullStep(t) ==
    /\ req.state = "adding"
    /\ LET s == Steps[req.next]
       IN  /\ now' = t
           /\ jobs' = AddJob(jobs, req.user, s, req.body.documentId, t)
           /\ waiting' = AddWaiting(jobs, waiting, req.user, s, t)
           /\ req' = [req EXCEPT !.jobIds = Append(@, JobId(req.user, s, t)),
                                 !.added = Append(@, FindJob(jobs, JobId(req.user, s, t)) = 0),
                                 !.next = @ + 1,
                                 !.state = IF req.next = Len(Steps) THEN "returned" ELSE "adding"]
    /\ UNCHANGED <<tables, frame, call, runs, data, outputs, crashes, slots, pipelines, overall>>

\* res.status(202).json({message, jobIds, status: 'queued'})
RespondQueued ==
    /\ req.state = "returned"
    /\ req' = [req EXCEPT !.state = "answered", !.response = 202]
    /\ UNCHANGED <<tables, frame, call, now, jobs, waiting, runs, data, outputs, crashes,
                   slots, pipelines, overall>>

InitRun ==
    /\ now = 1
    /\ jobs = <<>>
    /\ waiting = <<>>
    /\ runs = <<>>
    /\ data = [u \in Users |-> {}]
    /\ outputs = [u \in Users |-> {}]
    /\ req = IdleRun(MaxRequests)
    /\ crashes = 0
    /\ slots = 0
    /\ pipelines = <<>>
    /\ overall = "unset"
    /\ InitServices

NextRun ==
    \/ \E u \in Users, body \in Bodies : RunPipeline(u, body)
    \/ \E t \in Clock : RunPipelineStep(t)
    \/ \E t \in Clock : RunPipelineFullStep(t)
    \/ RespondQueued

RunSpec == InitRun /\ [][NextRun]_vars

-----------------------------------------------------------------------------
(* The logos step: runLogoPipeline, one company after the other *)

\* the companies of a user's work experiences, in the order of the Map
Companies == <<"c1", "c2">>

Providers == <<"brandfetch", "logo.dev", "ideogram">>

Url == "url"

\* what a provider returns: a logo url, or null when it is not configured,
\* fails, times out or finds nothing
ProviderResults == {Null, Url}

\* f with the frame of job j set to r
Put(f, j, r) == [k \in (DOMAIN f) \cup {j} |-> IF k = j THEN r ELSE f[k]]

\* .maybeSingle(): the row when exactly one row matches; null when none does,
\* and null with an error when several do (0 stands for null)
maybeSingle(ids) == IF Cardinality(ids) = 1 THEN CHOOSE i \in ids : TRUE ELSE 0

\* the rows of company_assets of a company
LinksOf(rows, c) == {i \in 1..Len(rows) : rows[i].company_id = c}

\* a test of the existing link that never skips a company
SkipCompany_Never(existing) == FALSE

\* if (existing) continue
SkipCompany(existing) == existing # 0

\* the locals of runLogoPipeline and fetchAndSaveCompanyLogo at company number c
LogoFrame(c, results) ==
    [company |-> c, stage |-> "check", logoUrl |-> Null, source |-> Null,
     assetId |-> 0, results |-> results]

LogoSaved(source) == [success |-> TRUE, source |-> source]

\* return { success: false }
LogoNotSaved == [success |-> FALSE, source |-> Null]

\* a run that throws when no company got a logo
LogoPipelineOutcome_ThrowsWhenNoneFound(results) ==
    IF \A i \in 1..Len(results) : ~results[i].success THEN MsgTransient ELSE "ok"

\* runLogoPipeline after its loop: the results are logged and the run returns
LogoPipelineOutcome(results) == "ok"

InLogos(j, stage) ==
    /\ jobs[j].state = "active"
    /\ jobs[j].step = "logos"
    /\ jobs[j].pc = "logos"
    /\ frame[j].stage = stage

\* runLogoPipeline up to its loop: the user's work experiences are read
RunLogoPipeline(j) ==
    /\ jobs[j].state = "active"
    /\ jobs[j].step = "logos"
    /\ jobs[j].pc = "work"
    /\ IF "workExps" \notin data[jobs[j].user]
       THEN /\ jobs' = SetJob(j, [jobs[j] EXCEPT !.outcome = "ok", !.absent = TRUE,
                                                 !.pc = AfterWork("logos", "ok")])
            /\ UNCHANGED frame
       ELSE /\ jobs' = SetJob(j, [jobs[j] EXCEPT !.pc = "logos"])
            /\ frame' = Put(frame, j, LogoFrame(1, <<>>))
    /\ UNCHANGED <<tables, call, now, waiting, runs, data, outputs, req, crashes, slots,
                   pipelines, overall>>

\* the end of one turn of the loop with the given result: the next company,
\* or the return of runLogoPipeline after the last one
FinishCompany(j, result) ==
    LET f == frame[j]
        results == Append(f.results, [company |-> Companies[f.company],
                                      success |-> result.success,
                                      source |-> result.source])
    IN  IF f.company < Len(Companies)
        THEN /\ frame' = Put(frame, j, LogoFrame(f.company + 1, results))
             /\ UNCHANGED <<jobs, outputs>>
        ELSE /\ frame' = Put(frame, j, [f EXCEPT !.stage = "returned", !.results = results])
             /\ jobs' = SetJob(j, [jobs[j] EXCEPT
                            !.outcome = LogoPipelineOutcome(results),
                            !.pc = AfterWork("logos", LogoPipelineOutcome(results))])
             /\ outputs' = [outputs EXCEPT ![jobs[j].user] = @ \cup {"logos"}]

\* the check for an existing logo of the company
CheckExisting(j) ==
    /\ InLogos(j, "check")
    /\ LET c == Companies[frame[j].company]
           existing == maybeSingle(LinksOf(companyAssets, c))
       IN  IF SkipCompany(existing)
           THEN /\ frame' = IF frame[j].company < Len(Companies)
                            THEN Put(frame, j, LogoFrame(frame[j].company + 1, frame[j].results))
                            ELSE Put(frame, j, [frame[j] EXCEPT !.stage = "returned"])
                /\ jobs' = IF frame[j].company < Len(Companies)
                           THEN jobs
                           ELSE SetJob(j, [jobs[j] EXCEPT
                                    !.outcome = LogoPipelineOutcome(frame[j].results),
                                    !.pc = AfterWork("logos", LogoPipelineOutcome(frame[j].results))])
                /\ outputs' = IF frame[j].company < Len(Companies)
                              THEN outputs
                              ELSE [outputs EXCEPT ![jobs[j].user] = @ \cup {"logos"}]
           ELSE /\ frame' = Put(frame, j, [frame[j] EXCEPT !.stage = "brandfetch"])
                /\ UNCHANGED <<jobs, outputs>>
    /\ UNCHANGED <<tables, call, now, waiting, runs, data, req, crashes, slots,
                   pipelines, overall>>

\* a cascade that goes on to Logo.dev whatever Brandfetch returned
AfterBrandfetch_Always(logoUrl) == "logo.dev"

\* if (!logoUrl) { logoUrl = await tryLogoDev(companyName) ... }
AfterBrandfetch(logoUrl) == IF logoUrl = Null THEN "logo.dev" ELSE "download"

\* if (!logoUrl) { logoUrl = await generateWithIdeogram(companyName) ... }
AfterLogoDev(logoUrl) == IF logoUrl = Null THEN "ideogram" ELSE "download"

\* if (!logoUrl) { return { success: false } }
AfterIdeogram(logoUrl) == IF logoUrl = Null THEN "notfound" ELSE "download"

ProviderCall(j, provider, result) ==
    [job |-> j, company |-> Companies[frame[j].company], provider |-> provider,
     result |-> result]

\* stage 1: logoUrl = await tryBrandfetch(companyName); source = 'brandfetch'
tryBrandfetch(j) ==
    /\ InLogos(j, "brandfetch")
    /\ \E r \in ProviderResults :
          /\ calls' = Append(calls, ProviderCall(j, "brandfetch", r))
          /\ frame' = Put(frame, j, [frame[j] EXCEPT !.logoUrl = r, !.source = "brandfetch",
                                                     !.stage = AfterBrandfetch(r)])
    /\ UNCHANGED <<companyAssets, assets, completenessTables, achievementTables, call, now,
                   jobs, waiting, runs, data, outputs, req, crashes, slots, pipelines, overall>>

\* stage 2: logoUrl = await tryLogoDev(companyName); source = 'logo.dev'
tryLogoDev(j) ==
    /\ InLogos(j, "logo.dev")
    /\ \E r \in ProviderResults :
          /\ calls' = Append(calls, ProviderCall(j, "logo.dev", r))
          /\ frame' = Put(frame, j, [frame[j] EXCEPT !.logoUrl = r, !.source = "logo.dev",
                                                     !.stage = AfterLogoDev(r)])
    /\ UNCHANGED <<companyAssets, assets, completenessTables, achievementTables, call, now,
                   jobs, waiting, runs, data, outputs, req, crashes, slots, pipelines, overall>>

\* stage 3: logoUrl = await generateWithIdeogram(companyName); source = 'ideogram';
\* without a url fetchAndSaveCompanyLogo returns { success: false }
generateWithIdeogram(j) ==
    /\ InLogos(j, "ideogram")
    /\ \E r \in ProviderResults :
          /\ calls' = Append(calls, ProviderCall(j, "ideogram", r))
          /\ IF AfterIdeogram(r) = "notfound"
             THEN FinishCompany(j, LogoNotSaved)
             ELSE /\ frame' = Put(frame, j, [frame[j] EXCEPT !.logoUrl = r,
                                    !.source = "ideogram", !.stage = AfterIdeogram(r)])
                  /\ UNCHANGED <<jobs, outputs>>
    /\ UNCHANGED <<companyAssets, assets, completenessTables, achievementTables, call, now,
                   waiting, runs, data, req, crashes, slots, pipelines, overall>>

\* the logo is downloaded and uploaded to storage; an error of either is caught
\* and fetchAndSaveCompanyLogo returns { success: false }
DownloadLogo(j) ==
    /\ InLogos(j, "download")
    /\ \E ok \in BOOLEAN :
          IF ok
          THEN /\ frame' = Put(frame, j, [frame[j] EXCEPT !.stage = "asset"])
               /\ UNCHANGED <<jobs, outputs>>
          ELSE FinishCompany(j, LogoNotSaved)
    /\ UNCHANGED <<tables, call, now, waiting, runs, data, req, crashes, slots,
                   pipelines, overall>>

\* .from('assets').insert({kind, storage_url, label, source}).select().single()
InsertLogoAsset(j) ==
    /\ InLogos(j, "asset")
    /\ assets' = Append(assets, [label |-> Companies[frame[j].company],
                                 source |-> frame[j].source])
    /\ frame' = Put(frame, j, [frame[j] EXCEPT !.assetId = Len(assets) + 1, !.stage = "link"])
    /\ UNCHANGED <<companyAssets, calls, completenessTables, achievementTables, call, now,
                   jobs, waiting, runs, data, outputs, req, crashes, slots, pipelines, overall>>

\* .from('company_assets').insert({company_id, asset_id, is_primary: true});
\* fetchAndSaveCompanyLogo returns { success: true, source }
InsertCompanyAsset(j) ==
    /\ InLogos(j, "link")
    /\ companyAssets' = Append(companyAssets,
                               [company_id |-> Companies[frame[j].company],
                                asset_id |-> frame[j].assetId, is_primary |-> TRUE])
    /\ FinishCompany(j, LogoSaved(frame[j].source))
    /\ UNCHANGED <<assets, calls, completenessTables, achievementTables, call, now,
                   waiting, runs, data, req, crashes, slots, pipelines, overall>>

RECURSIVE fetchCompanyLogoFrom(_, _)
\* fetchCompanyLogo from provider number i on, given what each provider would
\* return: the source reported and the providers invoked
fetchCompanyLogoFrom(res, i) ==
    IF i > Len(Providers) THEN [source |-> "fallback", invoked |-> <<>>]
    ELSE IF res[i] # Null THEN [source |-> Providers[i], invoked |-> <<Providers[i]>>]
    ELSE LET rest == fetchCompanyLogoFrom(res, i + 1)
         IN  [source |-> rest.source, invoked |-> <<Providers[i]>> \o rest.invoked]

\* the legacy resolver
fetchCompanyLogo(res) == fetchCompanyLogoFrom(res, 1)

\* logos jobs of one user, processed one at a time
MaxLogoRuns == 2

InitLogo ==
    /\ now = 1
    /\ jobs = <<>>
    /\ waiting = <<>>
    /\ runs = <<>>
    /\ data \in [Users -> {{}, {"workExps"}}]
    /\ outputs = [u \in Users |-> {}]
    /\ req = IdleReq(MaxLogoRuns, 0)
    /\ crashes = 0
    /\ slots = 1
    /\ pipelines = <<>>
    /\ overall = "unset"
    /\ InitServices

NextLogo ==
    \/ \E u \in Users, t \in Clock : QueuePipelineStep(u, "logos", TRUE, t)
    \/ \E j \in JobIds : Dequeue(j)
    \/ \E j \in JobIds : SelectStep(j)
    \/ \E j \in JobIds : WriteStep(j)
    \/ \E j \in JobIds : RunLogoPipeline(j)
    \/ \E j \in JobIds : CheckExisting(j)
    \/ \E j \in JobIds : tryBrandfetch(j)
    \/ \E j \in JobIds : tryLogoDev(j)
    \/ \E j \in JobIds : generateWithIdeogram(j)
    \/ \E j \in JobIds : DownloadLogo(j)
    \/ \E j \in JobIds : InsertLogoAsset(j)
    \/ \E j \in JobIds : InsertCompanyAsset(j)
    \/ \E j \in JobIds : Exit(j)

LogoSpec == InitLogo /\ [][NextLogo]_vars

-----------------------------------------------------------------------------
(* Completeness: determineStrategy *)

\* a score is kept as a whole number of 1/Unit, so that the thresholds and the
\* scores of every section are exact: 0.9 is 108, 0.7 is 84, 0.5 is 60, 0.3 is 36
Unit == 120

\* determineStrategy with the first threshold exclusive
determineStrategy_ExclusiveComplete(score) ==
    IF 10 * score > 9 * Unit THEN "complete"
    ELSE IF 10 * score >= 7 * Unit THEN "polish"
    ELSE IF 10 * score >= 5 * Unit THEN "context"
    ELSE IF 10 * score >= 3 * Unit THEN "qualitative"
    ELSE IF score > 0 THEN "template"
    ELSE "hide"

\* determineStrategy with the results of its fourth and fifth test exchanged
determineStrategy_TemplateAboveQualitative(score) ==
    IF 10 * score >= 9 * Unit THEN "complete"
    ELSE IF 10 * score >= 7 * Unit THEN "polish"
    ELSE IF 10 * score >= 5 * Unit THEN "context"
    ELSE IF 10 * score >= 3 * Unit THEN "template"
    ELSE IF score > 0 THEN "qualitative"
    ELSE "hide"

determineStrategy(score) ==
    IF 10 * score >= 9 * Unit THEN "complete"
    ELSE IF 10 * score >= 7 * Unit THEN "polish"
    ELSE IF 10 * score >= 5 * Unit THEN "context"
    ELSE IF 10 * score >= 3 * Unit THEN "qualitative"
    ELSE IF score > 0 THEN "template"
    ELSE "hide"

\* the largest score given to determineStrategy, in 1/Unit
MaxScore == 130

InitStrategy ==
    /\ now = 1
    /\ jobs = <<>>
    /\ waiting = <<>>
    /\ runs = <<>>
    /\ data = [u \in Users |-> {}]
    /\ outputs = [u \in Users |-> {}]
    /\ req = IdleReq(0, 0)
    /\ crashes = 0
    /\ slots = 0
    /\ pipelines = <<>>
    /\ overall = "unset"
    /\ companyAssets = <<>>
    /\ assets = <<>>
    /\ calls = <<>>
    /\ profile = [u \in Users |-> NoProfile]
    /\ placements = <<>>
    /\ completeness = <<>>
    /\ achievements = [u \in Users |-> <<>>]
    /\ rankings = <<>>
    /\ frame = <<>>
    /\ call \in {[fn |-> "determineStrategy", arg |-> x, result |-> Null] : x \in 0..MaxScore}

\* const strategy = determineStrategy(score)
DetermineStrategy ==
    /\ call.fn = "determineStrategy"
    /\ call.result = Null
    /\ call' = [call EXCEPT !.result = determineStrategy(call.arg)]
    /\ UNCHANGED <<tables, frame, now, jobs, waiting, runs, data, outputs, req, crashes,
                   slots, pipelines, overall>>

NextStrategy == DetermineStrategy

StrategySpec == InitStrategy /\ [][NextStrategy]_vars

-----------------------------------------------------------------------------
(* Completeness: the six sections and their records *)

Min2(a, b) == IF a <= b THEN a ELSE b

\* calculateImagesCompleteness: requiredPlacements
RequiredPlacements ==
    <<"hero", "achievements_general_main", "achievements_career_main", "certifications_bg">>

PlacementSet == {RequiredPlacements[i] : i \in 1..Len(RequiredPlacements)}

CompletenessScore(section, score, strategy, missingFields) ==
    [section |-> section, score |-> score, strategy |-> strategy,
     missingFields |-> missingFields]

\* the rows of image_placements of the user
PlacementsOf(u) == {i \in 1..Len(placements) : placements[i].user_id = u}

\* score = existingPlacements.length / requiredPlacements.length
calculateImagesCompleteness(u) ==
    LET existing == {placements[i].placement : i \in PlacementsOf(u)}
        score == (Unit * Cardinality(PlacementsOf(u))) \div Len(RequiredPlacements)
    IN  CompletenessScore("images", score, determineStrategy(score),
                          PlacementSet \ existing)

\* score = countScore * 0.4 + metricsScore * 0.4 + impactScore * 0.2, target count 6
calculateAchievementsCompleteness(u) ==
    LET rows == achievements[u]
        n == Len(rows)
        withMetrics == Cardinality({i \in 1..n : rows[i].metric})
        withImpact == Cardinality({i \in 1..n : rows[i].impact_statement})
        score == (4 * Unit * Min2(n, 6)) \div (10 * 6)
                    + (4 * Unit * withMetrics) \div (10 * n)
                    + (2 * Unit * withImpact) \div (10 * n)
    IN  IF profile[u].exps = <<>>
        THEN CompletenessScore("achievements", 0, "template", {"work_experiences"})
        ELSE IF n = 0
        THEN CompletenessScore("achievements", 0, "template", {"achievements"})
        ELSE CompletenessScore("achievements", score, determineStrategy(score),
                (IF n < 6 THEN {"more_achievements"} ELSE {})
                    \cup (IF 2 * withMetrics < n THEN {"metrics"} ELSE {})
                    \cup (IF 2 * withImpact < n THEN {"impact_statements"} ELSE {}))

\* score = withLogos.size / companyIds.length
calculateLogosCompleteness(u) ==
    LET exps == profile[u].exps
        companyIds == {exps[i].company_id : i \in 1..Len(exps)} \ {Null}
        withLogos == {c \in companyIds : LinksOf(companyAssets, c) # {}}
        score == (Unit * Cardinality(withLogos)) \div Cardinality(companyIds)
    IN  IF companyIds = {}
        THEN CompletenessScore("logos", 0, "hide", {"companies"})
        ELSE CompletenessScore("logos", score, determineStrategy(score),
                               IF score < Unit THEN {"logos"} ELSE {})

RECURSIVE TotalFilled(_)
\* totalScore in quarters: the fields present over all experiences
TotalFilled(exps) ==
    IF exps = <<>> THEN 0 ELSE Head(exps).filled + TotalFilled(Tail(exps))

\* score = totalScore / experiences.length, 0.25 for each of four fields
calculateWorkExperienceCompleteness(u) ==
    LET exps == profile[u].exps
        score == (Unit * TotalFilled(exps)) \div (4 * Len(exps))
    IN  IF exps = <<>>
        THEN CompletenessScore("work_experience", 0, "template", {"work_experiences"})
        ELSE CompletenessScore("work_experience", score, determineStrategy(score),
                               IF 10 * score < 8 * Unit THEN {"incomplete_fields"} ELSE {})

\* score = Math.min(skills.length / targetCount, 1.0), target count 8
calculateSkillsCompleteness(u) ==
    LET n == profile[u].skills
        score == (Unit * Min2(n, 8)) \div 8
    IN  IF n = 0
        THEN CompletenessScore("skills", 0, "template", {"skills"})
        ELSE CompletenessScore("skills", score, determineStrategy(score),
                               IF n < 8 THEN {"more_skills"} ELSE {})

\* 0.3 for the opener, 0.4 for the narrative, 0.3 for the quote
calculateStoryCompleteness(u) ==
    LET story == profile[u].story
        score == (IF story.opener THEN (3 * Unit) \div 10 ELSE 0)
                    + (IF story.narrative THEN (4 * Unit) \div 10 ELSE 0)
                    + (IF story.quote THEN (3 * Unit) \div 10 ELSE 0)
    IN  IF ~story.present
        THEN CompletenessScore("story", 0, "qualitative", {"story"})
        ELSE CompletenessScore("story", score, determineStrategy(score),
                (IF story.opener THEN {} ELSE {"opener"})
                    \cup (IF story.narrative THEN {} ELSE {"narrative"})
                    \cup (IF story.quote THEN {} ELSE {"quote"}))

\* calculateAllCompleteness: the scores, in the order they are saved
calculateAllCompleteness(u) ==
    <<calculateImagesCompleteness(u), calculateAchievementsCompleteness(u),
      calculateLogosCompleteness(u), calculateWorkExperienceCompleteness(u),
      calculateSkillsCompleteness(u), calculateStoryCompleteness(u)>>

\* the rows of completeness of (user, section)
CompletenessOf(rows, u, section) ==
    {i \in 1..Len(rows) : rows[i].user_id = u /\ rows[i].section = section}

\* .single(): the row when exactly one row matches, else null with an error
\* (0 stands for null)
single(ids) == IF Cardinality(ids) = 1 THEN CHOOSE i \in ids : TRUE ELSE 0

CompletenessRow(u, sc) ==
    [user_id |-> u, section |-> sc.section, score |-> sc.score,
     strategy |-> sc.strategy, missing_fields |-> sc.missingFields]

\* saveCompletenessScore after its select: update the row found, else insert
SaveScore(rows, existing, u, sc) ==
    IF existing # 0
    THEN [rows EXCEPT ![existing] = CompletenessRow(u, sc)]
    ELSE Append(rows, CompletenessRow(u, sc))

InCompleteness(j, stage) ==
    /\ jobs[j].state = "active"
    /\ jobs[j].step = "completeness"
    /\ jobs[j].pc = "saving"
    /\ frame[j].stage = stage

\* handler 'completeness': calculateAllCompleteness computes the six scores
CalculateAllCompleteness(j) ==
    /\ jobs[j].state = "active"
    /\ jobs[j].step = "completeness"
    /\ jobs[j].pc = "work"
    /\ jobs' = SetJob(j, [jobs[j] EXCEPT !.pc = "saving"])
    /\ frame' = Put(frame, j, [scores |-> calculateAllCompleteness(jobs[j].user),
                               next |-> 1, stage |-> "select", existing |-> 0])
    /\ UNCHANGED <<tables, call, now, waiting, runs, data, outputs, req, crashes, slots,
                   pipelines, overall>>

\* saveCompletenessScore, first await: select the record of (user, section)
SelectCompleteness(j) ==
    /\ InCompleteness(j, "select")
    /\ frame' = Put(frame, j, [frame[j] EXCEPT
                    !.existing = single(CompletenessOf(completeness, jobs[j].user,
                                                      frame[j].scores[frame[j].next].section)),
                    !.stage = "write"])
    /\ UNCHANGED <<tables, call, now, jobs, waiting, runs, data, outputs, req, crashes,
                   slots, pipelines, overall>>

\* saveCompletenessScore, second await: update or insert; after the last
\* section calculateAllCompleteness returns and the handler logs
WriteCompleteness(j) ==
    /\ InCompleteness(j, "write")
    /\ completeness' = SaveScore(completeness, frame[j].existing, jobs[j].user,
                                 frame[j].scores[frame[j].next])
    /\ IF frame[j].next < Len(frame[j].scores)
       THEN /\ frame' = Put(frame, j, [frame[j] EXCEPT !.next = @ + 1, !.stage = "select",
                                                       !.existing = 0])
            /\ UNCHANGED <<jobs, outputs>>
       ELSE /\ frame' = Put(frame, j, [frame[j] EXCEPT !.stage = "returned"])
            /\ jobs' = SetJob(j, [jobs[j] EXCEPT !.outcome = "ok",
                                                 !.pc = AfterWork("completeness", "ok")])
            /\ outputs' = [outputs EXCEPT ![jobs[j].user] = @ \cup {"completeness"}]
    /\ UNCHANGED <<logoTables, profile, placements, achievementTables, call, now, waiting,
                   runs, data, req, crashes, slots, pipelines, overall>>

\* which of the four generations of one images run succeed
GenerationOutcomes == {{}, {"hero"}, PlacementSet}

RECURSIVE PlacementRows(_, _, _)
\* the rows createImagePlacement inserts, in the order of ARCHETYPES
PlacementRows(u, generated, i) ==
    IF i > Len(RequiredPlacements) THEN <<>>
    ELSE (IF RequiredPlacements[i] \in generated
          THEN <<[user_id |-> u, placement |-> RequiredPlacements[i]]>>
          ELSE <<>>) \o PlacementRows(u, generated, i + 1)

\* handler 'images': the portrait check, then generateProfessionalImages, which
\* inserts a placement for each archetype whose generation succeeded
GenerateProfessionalImages(j) ==
    /\ jobs[j].state = "active"
    /\ jobs[j].step = "images"
    /\ jobs[j].pc = "work"
    /\ IF "portrait" \notin data[jobs[j].user]
       THEN /\ jobs' = SetJob(j, [jobs[j] EXCEPT !.outcome = MsgNoPortrait, !.absent = TRUE,
                                                 !.pc = AfterWork("images", MsgNoPortrait)])
            /\ UNCHANGED <<placements, outputs>>
       ELSE \E generated \in GenerationOutcomes :
               /\ placements' = placements \o PlacementRows(jobs[j].user, generated, 1)
               /\ jobs' = SetJob(j, [jobs[j] EXCEPT !.outcome = "ok",
                                                    !.pc = AfterWork("images", "ok")])
               /\ outputs' = [outputs EXCEPT ![jobs[j].user] = @ \cup {"images"}]
    /\ UNCHANGED <<logoTables, profile, completeness, achievementTables, frame, call, now,
                   waiting, runs, data, req, crashes, slots, pipelines, overall>>

\* a row of achievements as the steps read it: metric is metric value and unit
\* present, impact_statement is an impact statement present, score is the
\* value of calculateAchievementScore in hundredths
AchievementRow(id, score, metric, impact) ==
    [id |-> id, score |-> score, metric |-> metric, impact_statement |-> impact,
     provenance |-> "user_provided", raw_text |-> "raw", confidence |-> 100,
     requires_review |-> FALSE]

\* work experiences: the company linked and the number of the four fields present
ExperienceChoices ==
    {<<>>,
     <<[company_id |-> "c1", filled |-> 4]>>,
     <<[company_id |-> "c1", filled |-> 2], [company_id |-> Null, filled |-> 3]>>}

SkillChoices == {0, 8}

StoryChoices ==
    {NoStory, [present |-> TRUE, opener |-> TRUE, narrative |-> TRUE, quote |-> FALSE]}

AchievementChoices ==
    {<<>>,
     <<AchievementRow(1, 50, TRUE, FALSE)>>,
     <<AchievementRow(1, 50, TRUE, TRUE), AchievementRow(2, 50, FALSE, FALSE),
       AchievementRow(3, 50, TRUE, FALSE)>>}

\* images and completeness jobs of one user, processed one at a time
MaxCompletenessJobs == 3

\* the tables a completeness run reads, for a user with a portrait
InitProfiles ==
    /\ data = [u \in Users |-> {"portrait"}]
    /\ companyAssets = <<>>
    /\ assets = <<>>
    /\ calls = <<>>
    /\ profile \in [Users -> [exps : ExperienceChoices, skills : SkillChoices,
                              story : StoryChoices]]
    /\ placements = <<>>
    /\ completeness = <<>>
    /\ achievements \in [Users -> AchievementChoices]
    /\ \A u \in Users : profile[u].exps = <<>> => achievements[u] = <<>>
    /\ rankings = <<>>

InitCompleteness ==
    /\ now = 1
    /\ jobs = <<>>
    /\ waiting = <<>>
    /\ runs = <<>>
    /\ outputs = [u \in Users |-> {}]
    /\ req = IdleReq(MaxCompletenessJobs, 0)
    /\ crashes = 0
    /\ slots = 1
    /\ pipelines = <<>>
    /\ overall = "unset"
    /\ InitProfiles
    /\ frame = <<>>
    /\ call = NoCall

NextCompleteness ==
    \/ \E u \in Users, s \in {"images", "completeness"}, t \in Clock :
          QueuePipelineStep(u, s, TRUE, t)
    \/ \E j \in JobIds : Dequeue(j)
    \/ \E j \in JobIds : SelectStep(j)
    \/ \E j \in JobIds : WriteStep(j)
    \/ \E j \in JobIds : GenerateProfessionalImages(j)
    \/ \E j \in JobIds : CalculateAllCompleteness(j)
    \/ \E j \in JobIds : SelectCompleteness(j)
    \/ \E j \in JobIds : WriteCompleteness(j)
    \/ \E j \in JobIds : Exit(j)

CompletenessSpec == InitCompleteness /\ [][NextCompleteness]_vars

\* completeness jobs of one user, MaxWorkers of them processed at a time
MaxCompletenessRuns == 2

MaxWorkers == 2

InitCompletenessRace ==
    /\ now = 1
    /\ jobs = <<>>
    /\ waiting = <<>>
    /\ runs = <<>>
    /\ outputs = [u \in Users |-> {}]
    /\ req = IdleReq(MaxCompletenessRuns, 0)
    /\ crashes = 0
    /\ slots = MaxWorkers
    /\ pipelines = <<>>
    /\ overall = "unset"
    /\ InitProfiles
    /\ frame = <<>>
    /\ call = NoCall

NextCompletenessRace ==
    \/ \E u \in Users, t \in Clock : QueuePipelineStep(u, "completeness", TRUE, t)
    \/ \E j \in JobIds : Dequeue(j)
    \/ \E j \in JobIds : CalculateAllCompleteness(j)
    \/ \E j \in JobIds : SelectCompleteness(j)
    \/ \E j \in JobIds : WriteCompleteness(j)
    \/ \E j \in JobIds : Exit(j)

CompletenessRaceSpec == InitCompletenessRace /\ [][NextCompletenessRace]_vars

\* logos jobs of one user that share their companies, processed MaxWorkers at
\* a time
InitLogoRace ==
    /\ now = 1
    /\ jobs = <<>>
    /\ waiting = <<>>
    /\ runs = <<>>
    /\ data = [u \in Users |-> {"workExps"}]
    /\ outputs = [u \in Users |-> {}]
    /\ req = IdleReq(MaxLogoRuns, 0)
    /\ crashes = 0
    /\ slots = MaxWorkers
    /\ pipelines = <<>>
    /\ overall = "unset"
    /\ InitServices

\* tryBrandfetch when Brandfetch has the company's logo
BrandfetchFinds(j) == tryBrandfetch(j) /\ frame'[j].logoUrl = Url

\* the download and the upload when both succeed
DownloadSucceeds(j) == DownloadLogo(j) /\ frame'[j].stage = "asset"

\* the logos step with every logo found at the first provider
NextLogoRace ==
    \/ \E u \in Users, t \in Clock : QueuePipelineStep(u, "logos", TRUE, t)
    \/ \E j \in JobIds : Dequeue(j)
    \/ \E j \in JobIds : SelectStep(j)
    \/ \E j \in JobIds : WriteStep(j)
    \/ \E j \in JobIds : RunLogoPipeline(j)
    \/ \E j \in JobIds : CheckExisting(j)
    \/ \E j \in JobIds : BrandfetchFinds(j)
    \/ \E j \in JobIds : DownloadSucceeds(j)
    \/ \E j \in JobIds : InsertLogoAsset(j)
    \/ \E j \in JobIds : InsertCompanyAsset(j)
    \/ \E j \in JobIds : Exit(j)

LogoRaceSpec == InitLogoRace /\ [][NextLogoRace]_vars

-----------------------------------------------------------------------------
(* One step requested several times: MaxCalls queuePipelineStep calls for the *)
(* same user and step, the jobs processed MaxWorkers at a time               *)

MaxCalls == 2

\* the step requested
RepeatedStep == "story"

InitRepeat ==
    /\ now = 1
    /\ jobs = <<>>
    /\ waiting = <<>>
    /\ runs = <<>>
    /\ data = [u \in Users |-> {"workExps"}]
    /\ outputs = [u \in Users |-> {}]
    /\ req = IdleReq(MaxCalls, 0)
    /\ crashes = 0
    /\ slots = MaxWorkers
    /\ pipelines = <<>>
    /\ overall = "unset"
    /\ InitServices

NextRepeat ==
    \/ \E u \in Users, t \in Clock : QueuePipelineStep(u, RepeatedStep, TRUE, t)
    \/ \E j \in JobIds : Dequeue(j)
    \/ \E j \in JobIds : SelectStep(j)
    \/ \E j \in JobIds : WriteStep(j)
    \/ \E j \in JobIds : Work(j)
    \/ \E j \in JobIds : Exit(j)
    \/ \E j \in JobIds : PromoteDelayed(j)

RepeatSpec == InitRepeat /\ [][NextRepeat]_vars

\* fair scheduling of the workers and of the backoff delay
FairRepeatSpec ==
    /\ InitRepeat
    /\ [][NextRepeat]_vars
    /\ WF_vars(\E j \in JobIds : Dequeue(j))
    /\ WF_vars(\E j \in JobIds : SelectStep(j))
    /\ WF_vars(\E j \in JobIds : WriteStep(j))
    /\ WF_vars(\E j \in JobIds : Work(j))
    /\ WF_vars(\E j \in JobIds : Exit(j))
    /\ WF_vars(\E j \in JobIds : PromoteDelayed(j))

-----------------------------------------------------------------------------
(* The ingest step: runIngestPipeline *)

\* structureResumeContent: what the document of the user is structured into
\* (the work experiences, the achievements and the number of skills)
StructuredResume(d) ==
    IF "longResume" \in d
    THEN [workExperiences |-> <<[company_id |-> "c1", filled |-> 4],
                                [company_id |-> "c2", filled |-> 3]>>,
          achievements |-> <<[score |-> 80, metric |-> TRUE], [score |-> 50, metric |-> FALSE]>>,
          skills |-> 3]
    ELSE [workExperiences |-> <<[company_id |-> "c1", filled |-> 4]>>,
          achievements |-> <<>>,
          skills |-> 1]

\* for (const achievement of structured.achievements) insert({...}): the rows
\* get the next ids of the table
InsertAchievements(rows, new) ==
    rows \o [i \in 1..Len(new) |->
                AchievementRow(Len(rows) + i, new[i].score, new[i].metric, FALSE)]

\* for (const exp of structured.workExperiences) insert({...});
\* for (const skill of structured.skills) insert({...})
InsertAll(p, structured) ==
    [p EXCEPT !.exps = @ \o structured.workExperiences,
              !.skills = @ + structured.skills]

\* handler 'ingest': the documentId check, then runIngestPipeline: the
\* document is fetched, downloaded and structured, which may throw, and every
\* work experience, achievement and skill of the result is inserted
RunIngestPipeline(j) ==
    /\ jobs[j].state = "active"
    /\ jobs[j].step = "ingest"
    /\ jobs[j].pc = "work"
    /\ LET u == jobs[j].user
           structured == StructuredResume(data[u])
       IN  \/ /\ ~jobs[j].hasDoc
              /\ jobs' = SetJob(j, [jobs[j] EXCEPT !.outcome = MsgNoDoc,
                                                   !.pc = AfterWork("ingest", MsgNoDoc)])
              /\ UNCHANGED <<profile, achievements, data>>
           \/ /\ jobs[j].hasDoc
              /\ jobs' = SetJob(j, [jobs[j] EXCEPT !.outcome = MsgTransient,
                                                   !.pc = AfterWork("ingest", MsgTransient)])
              /\ UNCHANGED <<profile, achievements, data>>
           \/ /\ jobs[j].hasDoc
              /\ profile' = [profile EXCEPT ![u] = InsertAll(@, structured)]
              /\ achievements' = [achievements EXCEPT
                                    ![u] = InsertAchievements(@, structured.achievements)]
              /\ data' = [data EXCEPT ![u] = @ \cup {"workExps", "achievements", "skills"}]
              /\ jobs' = SetJob(j, [jobs[j] EXCEPT !.outcome = "ok",
                                                   !.pc = AfterWork("ingest", "ok")])
    /\ UNCHANGED <<logoTables, placements, completeness, rankings, frame, call, now, waiting,
                   runs, outputs, req, crashes, slots, pipelines, overall>>

\* ingest jobs of one user and document
MaxIngestRuns == 2

InitIngest ==
    /\ now = 1
    /\ jobs = <<>>
    /\ waiting = <<>>
    /\ runs = <<>>
    /\ data \in [Users -> {{}, {"longResume"}}]
    /\ outputs = [u \in Users |-> {}]
    /\ req = IdleReq(MaxIngestRuns, 0)
    /\ crashes = 0
    /\ slots = 1
    /\ pipelines = <<>>
    /\ overall = "unset"
    /\ InitServices

NextIngest ==
    \/ \E u \in Users, t \in Clock : \E doc \in Docs("ingest") :
          QueuePipelineStep(u, "ingest", doc, t)
    \/ \E j \in JobIds : Dequeue(j)
    \/ \E j \in JobIds : SelectStep(j)
    \/ \E j \in JobIds : WriteStep(j)
    \/ \E j \in JobIds : RunIngestPipeline(j)
    \/ \E j \in JobIds : Exit(j)
    \/ \E j \in JobIds : PromoteDelayed(j)
    \/ \E j \in JobIds : WorkerLost(j)
    \/ \E j \in JobIds : StalledCheck(j)

IngestSpec == InitIngest /\ [][NextIngest]_vars

-----------------------------------------------------------------------------
(* The achievements step: runAchievementsPipeline *)

\* scoredAchievements.slice(0, 6)
TopCount == 6

\* an insertion that puts an achievement ahead of those of equal score
InsertByScore_BeforeEquals(sorted, x) ==
    LET ahead == {i \in 1..Len(sorted) : sorted[i].score > x.score}
        n == Cardinality(ahead)
    IN  SubSeq(sorted, 1, n) \o <<x>> \o SubSeq(sorted, n + 1, Len(sorted))

\* x put into a list sorted by (a, b) => b.score - a.score: behind every
\* element that does not compare after it, those of equal score included
InsertByScore(sorted, x) ==
    LET ahead == {i \in 1..Len(sorted) : sorted[i].score >= x.score}
        n == Cardinality(ahead)
    IN  SubSeq(sorted, 1, n) \o <<x>> \o SubSeq(sorted, n + 1, Len(sorted))

RECURSIVE SortByScore(_)
\* scoredAchievements.sort((a, b) => b.score - a.score): Array.prototype.sort
\* is stable
SortByScore(scored) ==
    IF scored = <<>> THEN <<>>
    ELSE InsertByScore(SortByScore(SubSeq(scored, 1, Len(scored) - 1)), scored[Len(scored)])

\* forEach((achievement, index) => achievement.rank = index + 1)
AssignRanks(sorted) ==
    [i \in 1..Len(sorted) |->
        [id |-> sorted[i].id, score |-> sorted[i].score, metric |-> sorted[i].metric,
         impact_statement |-> sorted[i].impact_statement,
         provenance |-> sorted[i].provenance, rank |-> i]]

\* steps 2 and 3 of runAchievementsPipeline: score, sort, rank
RankAchievements(rows) == AssignRanks(SortByScore(rows))

\* a selection that keeps the whole ranked list
TopAchievements_All(ranked) == ranked

\* step 4: the top six
TopAchievements(ranked) == SubSeq(ranked, 1, Min2(TopCount, Len(ranked)))

\* saveAchievementRankings: items
RankingItems(top) ==
    [i \in 1..Len(top) |->
        [achievement_id |-> top[i].id, rank |-> top[i].rank, score |-> top[i].score]]

InAchievements(j, stage) ==
    /\ jobs[j].state = "active"
    /\ jobs[j].step = "achievements"
    /\ jobs[j].pc = "ranking"
    /\ frame[j].stage = stage

\* runAchievementsPipeline, steps 1 to 4: the achievements are fetched; without
\* any the run warns and returns; else they are scored, sorted and ranked
FetchAchievements(j) ==
    /\ jobs[j].state = "active"
    /\ jobs[j].step = "achievements"
    /\ jobs[j].pc = "work"
    /\ LET rows == achievements[jobs[j].user]
       IN  IF rows = <<>>
           THEN /\ jobs' = SetJob(j, [jobs[j] EXCEPT !.outcome = "ok", !.absent = TRUE,
                                                     !.pc = AfterWork("achievements", "ok")])
                /\ UNCHANGED frame
           ELSE /\ jobs' = SetJob(j, [jobs[j] EXCEPT !.pc = "ranking"])
                /\ frame' = Put(frame, j,
                                [input |-> rows,
                                 ranked |-> RankAchievements(rows),
                                 top |-> TopAchievements(RankAchievements(rows)),
                                 next |-> 1, stage |-> "enhance"])
    /\ UNCHANGED <<tables, call, now, waiting, runs, data, outputs, req, crashes, slots,
                   pipelines, overall>>

\* enhanceAchievement: the provenance of the enhanced statement; the fallback
\* when the generation fails
EnhancedProvenance(metric, generated) ==
    IF ~generated THEN "user_provided"
    ELSE IF metric THEN "model_polish" ELSE "model_context"

\* enhanceAchievement: what the update is given; impact_statement is the
\* generated text, or the raw text when the generation fails; confidence in
\* hundredths
enhanceAchievement(a, generated) ==
    [impact_statement |-> TRUE,
     provenance |-> EnhancedProvenance(a.metric, generated),
     confidence |-> IF ~generated THEN 100 ELSE IF a.metric THEN 90 ELSE 70,
     requires_review |-> IF ~generated THEN FALSE ELSE ~a.metric]

\* an update that stores the enhanced statement as the raw text as well
UpdateAchievement_RawText(row, enhanced) ==
    [row EXCEPT !.impact_statement = enhanced.impact_statement,
                !.provenance = enhanced.provenance,
                !.confidence = enhanced.confidence,
                !.requires_review = enhanced.requires_review,
                !.raw_text = "enhanced"]

\* .update({impact_statement, provenance, confidence, requires_review})
UpdateAchievement(row, enhanced) ==
    [row EXCEPT !.impact_statement = enhanced.impact_statement,
                !.provenance = enhanced.provenance,
                !.confidence = enhanced.confidence,
                !.requires_review = enhanced.requires_review]

\* step 5, one turn of the loop: a top achievement without impact statement or
\* of provenance user_provided is enhanced and updated
EnhanceAchievement(j) ==
    /\ InAchievements(j, "enhance")
    /\ LET a == frame[j].top[frame[j].next]
           u == jobs[j].user
           last == frame[j].next = Len(frame[j].top)
       IN  /\ IF ~a.impact_statement \/ a.provenance = "user_provided"
              THEN \E generated \in BOOLEAN :
                      achievements' = [achievements EXCEPT ![u] =
                          [i \in 1..Len(@) |->
                              IF @[i].id = a.id
                              THEN UpdateAchievement(@[i], enhanceAchievement(a, generated))
                              ELSE @[i]]]
              ELSE UNCHANGED achievements
           /\ frame' = Put(frame, j, [frame[j] EXCEPT
                            !.next = @ + 1,
                            !.stage = IF last THEN "delete" ELSE "enhance"])
    /\ UNCHANGED <<logoTables, completenessTables, rankings, call, now, jobs, waiting, runs,
                   data, outputs, req, crashes, slots, pipelines, overall>>

\* saveAchievementRankings, first await: delete the rankings of the user
DeleteRankings(j) ==
    /\ InAchievements(j, "delete")
    /\ rankings' = SelectSeq(rankings, LAMBDA r : r.user_id # jobs[j].user)
    /\ frame' = Put(frame, j, [frame[j] EXCEPT !.stage = "insert"])
    /\ UNCHANGED <<logoTables, completenessTables, achievements, call, now, jobs, waiting,
                   runs, data, outputs, req, crashes, slots, pipelines, overall>>

\* saveAchievementRankings, second await: insert the new ranking; the run returns
InsertRanking(j) ==
    /\ InAchievements(j, "insert")
    /\ rankings' = Append(rankings, [user_id |-> jobs[j].user,
                                     items |-> RankingItems(frame[j].top)])
    /\ frame' = Put(frame, j, [frame[j] EXCEPT !.stage = "returned"])
    /\ jobs' = SetJob(j, [jobs[j] EXCEPT !.outcome = "ok",
                                         !.pc = AfterWork("achievements", "ok")])
    /\ outputs' = [outputs EXCEPT ![jobs[j].user] = @ \cup {"achievements"}]
    /\ UNCHANGED <<logoTables, completenessTables, achievements, call, now, waiting, runs,
                   data, req, crashes, slots, pipelines, overall>>

\* achievements of a user
MaxAchievements == 3

\* achievements jobs of one user, processed one at a time
MaxRankingRuns == 1

\* values of calculateAchievementScore, in hundredths
ScoreChoices == {30, 50, 80}

\* the rows ingest has inserted: ids in order of insertion, no impact statement
AchievementLists ==
    UNION {{[i \in 1..n |-> AchievementRow(i, f[i][1], f[i][2], FALSE)] :
                f \in [1..n -> ScoreChoices \X BOOLEAN]} : n \in 0..MaxAchievements}

InitAchievements ==
    /\ now = 1
    /\ jobs = <<>>
    /\ waiting = <<>>
    /\ runs = <<>>
    /\ data = [u \in Users |-> {}]
    /\ outputs = [u \in Users |-> {}]
    /\ req = IdleReq(MaxRankingRuns, 0)
    /\ crashes = 0
    /\ slots = 1
    /\ pipelines = <<>>
    /\ overall = "unset"
    /\ companyAssets = <<>>
    /\ assets = <<>>
    /\ calls = <<>>
    /\ profile = [u \in Users |-> NoProfile]
    /\ placements = <<>>
    /\ completeness = <<>>
    /\ achievements \in [Users -> AchievementLists]
    /\ rankings = <<>>
    /\ frame = <<>>
    /\ call = NoCall

NextAchievements ==
    \/ \E u \in Users, t \in Clock : QueuePipelineStep(u, "achievements", TRUE, t)
    \/ \E j \in JobIds : Dequeue(j)
    \/ \E j \in JobIds : SelectStep(j)
    \/ \E j \in JobIds : WriteStep(j)
    \/ \E j \in JobIds : FetchAchievements(j)
    \/ \E j \in JobIds : EnhanceAchievement(j)
    \/ \E j \in JobIds : DeleteRankings(j)
    \/ \E j \in JobIds : InsertRanking(j)
    \/ \E j \in JobIds : Exit(j)

AchievementsSpec == InitAchievements /\ [][NextAchievements]_vars

\* achievements of a user whose ranking is longer than the top selection
MaxRanked == 7

\* lists of up to MaxRanked achievements with a metric, of two score values
LongAchievementLists ==
    UNION {{[i \in 1..n |-> AchievementRow(i, f[i], TRUE, FALSE)] :
                f \in [1..n -> {50, 80}]} : n \in 0..MaxRanked}

\* one achievements job of a user with up to MaxRanked achievements
InitTop ==
    /\ now = 1
    /\ jobs = <<>>
    /\ waiting = <<>>
    /\ runs = <<>>
    /\ data = [u \in Users |-> {}]
    /\ outputs = [u \in Users |-> {}]
    /\ req = IdleReq(1, 0)
    /\ crashes = 0
    /\ slots = 1
    /\ pipelines = <<>>
    /\ overall = "unset"
    /\ companyAssets = <<>>
    /\ assets = <<>>
    /\ calls = <<>>
    /\ profile = [u \in Users |-> NoProfile]
    /\ placements = <<>>
    /\ completeness = <<>>
    /\ achievements \in [Users -> LongAchievementLists]
    /\ rankings = <<>>
    /\ frame = <<>>
    /\ call = NoCall

TopSpec == InitTop /\ [][NextAchievements]_vars

\* achievements jobs of one user run one after the other over the same rows
MaxRerankRuns == 2

InitRerank ==
    /\ now = 1
    /\ jobs = <<>>
    /\ waiting = <<>>
    /\ runs = <<>>
    /\ data = [u \in Users |-> {}]
    /\ outputs = [u \in Users |-> {}]
    /\ req = IdleReq(MaxRerankRuns, 0)
    /\ crashes = 0
    /\ slots = 1
    /\ pipelines = <<>>
    /\ overall = "unset"
    /\ companyAssets = <<>>
    /\ assets = <<>>
    /\ calls = <<>>
    /\ profile = [u \in Users |-> NoProfile]
    /\ placements = <<>>
    /\ completeness = <<>>
    /\ achievements \in [Users -> AchievementChoices]
    /\ rankings = <<>>
    /\ frame = <<>>
    /\ call = NoCall

RerankSpec == InitRerank /\ [][NextAchievements]_vars

-----------------------------------------------------------------------------
(* The achievements step: calculateAchievementScore *)

\* a number is kept as a whole number of 1/Scale
Scale == 10000

\* the values of a JavaScript number the scoring meets
Num(v) == [kind |-> "num", v |-> v]

NaN == [kind |-> "nan", v |-> 0]

NegInfinity == [kind |-> "-inf", v |-> 0]

\* Math.log of the whole numbers that are logged, in 1/Scale
LnTable ==
    (2 :> 6931) @@ (51 :> 39318) @@ (101 :> 46151) @@ (366 :> 59026) @@ (1001 :> 69088)
        @@ (10001 :> 92104) @@ (1000001 :> 138155) @@ (2000001 :> 145087)
        @@ (10000001 :> 161181)

\* Math.log(x): NaN below 0, -Infinity at 0
MathLog(x) ==
    IF x < 0 THEN NaN
    ELSE IF x = 0 THEN NegInfinity
    ELSE IF x = 1 THEN Num(0)
    ELSE Num(LnTable[x])

\* a / b for a positive number b
Divide(a, b) == IF a.kind = "num" THEN Num((a.v * Scale) \div b.v) ELSE a

\* Math.min(a, b): NaN when either is NaN
MathMin(a, b) ==
    IF a.kind = "nan" \/ b.kind = "nan" THEN NaN
    ELSE IF a.kind = "-inf" \/ b.kind = "-inf" THEN NegInfinity
    ELSE Num(Min2(a.v, b.v))

\* Math.max(a, b): NaN when either is NaN
MathMax(a, b) ==
    IF a.kind = "nan" \/ b.kind = "nan" THEN NaN
    ELSE IF a.kind = "-inf" THEN b
    ELSE IF b.kind = "-inf" THEN a
    ELSE Num(Max2(a.v, b.v))

\* calculateMetricStrength: normalizations
Normalizations ==
    [percent |-> [threshold |-> 10, max |-> 100],
     million |-> [threshold |-> 1, max |-> 100],
     thousand |-> [threshold |-> 10, max |-> 1000],
     count |-> [threshold |-> 100, max |-> 10000],
     days |-> [threshold |-> 30, max |-> 365],
     users |-> [threshold |-> 1000, max |-> 1000000],
     revenue |-> [threshold |-> 100000, max |-> 10000000]]

\* normalizations[unit.toLowerCase()] || { threshold: 1, max: 100 }
NormOf(unit) ==
    IF unit \in DOMAIN Normalizations THEN Normalizations[unit]
    ELSE [threshold |-> 1, max |-> 100]

\* achievement.metric_value && achievement.metric_unit: a value that is
\* present and not 0, and a unit
HasMetric(a) == a.metric_value.present /\ a.metric_value.v # 0 /\ a.metric_unit # Null

calculateMetricStrength(a) ==
    IF ~HasMetric(a) THEN Num((3 * Scale) \div 10)
    ELSE MathMax(Num((3 * Scale) \div 10),
                 MathMin(Divide(MathLog(a.metric_value.v + 1),
                                MathLog(NormOf(a.metric_unit).max + 1)),
                         Num(Scale)))

\* the scope as calculateScopeSize reads it: whether one is given, and the
\* indicators its lower-case text includes
Scope(present, includes) == [present |-> present, includes |-> includes]

NoScope == Scope(FALSE, {})

calculateScopeSize(scope) ==
    IF ~scope.present THEN Num((5 * Scale) \div 10)
    ELSE IF scope.includes \cap {"fortune 500", "enterprise"} # {} THEN Num(Scale)
    ELSE IF scope.includes \cap {"company-wide", "organization"} # {}
    THEN Num((9 * Scale) \div 10)
    ELSE IF scope.includes \cap {"department", "division"} # {}
    THEN Num((7 * Scale) \div 10)
    ELSE IF scope.includes \cap {"team", "group"} # {} THEN Num((6 * Scale) \div 10)
    ELSE Num((5 * Scale) \div 10)

\* calculateEvidenceStrength without Math.min(strength, 1.0)
calculateEvidenceStrength_NoClamp(a) ==
    Num((5 * Scale) \div 10
            + (IF HasMetric(a) THEN (3 * Scale) \div 10 ELSE 0)
            + (IF a.scope.present THEN (2 * Scale) \div 10 ELSE 0)
            + (IF ~a.raw_text.empty /\ a.raw_text.verb THEN Scale \div 10 ELSE 0)
            + (IF ~a.raw_text.empty /\ a.raw_text.long THEN Scale \div 10 ELSE 0))

\* base 0.5, 0.3 for a metric, 0.2 for a scope, 0.1 for an action verb and
\* 0.1 for a text of more than 50 characters, at most 1.0
calculateEvidenceStrength(a) ==
    MathMin(Num((5 * Scale) \div 10
                    + (IF HasMetric(a) THEN (3 * Scale) \div 10 ELSE 0)
                    + (IF a.scope.present THEN (2 * Scale) \div 10 ELSE 0)
                    + (IF ~a.raw_text.empty /\ a.raw_text.verb THEN Scale \div 10 ELSE 0)
                    + (IF ~a.raw_text.empty /\ a.raw_text.long THEN Scale \div 10 ELSE 0)),
            Num(Scale))

\* metricStrength * 0.4 + scopeSize * 0.3 + evidenceStrength * 0.3, in 1/(10 * Scale)
WeightedSum(m, sc, e) ==
    IF m.kind = "nan" \/ sc.kind = "nan" \/ e.kind = "nan" THEN NaN
    ELSE Num(4 * m.v + 3 * sc.v + 3 * e.v)

\* Math.round(score * 100) / 100 of a score in 1/(10 * Scale): hundredths
RoundToHundredths(x) ==
    IF x.kind = "nan" THEN NaN
    ELSE Num((x.v + (10 * Scale) \div 200) \div ((10 * Scale) \div 100))

\* calculateAchievementScore, with the three strengths it computes; the score
\* is in hundredths
calculateAchievementScore(a) ==
    [returned |-> TRUE,
     metricStrength |-> calculateMetricStrength(a),
     scopeSize |-> calculateScopeSize(a.scope),
     evidenceStrength |-> calculateEvidenceStrength(a),
     score |-> RoundToHundredths(WeightedSum(calculateMetricStrength(a),
                                             calculateScopeSize(a.scope),
                                             calculateEvidenceStrength(a)))]

NoScore ==
    [returned |-> FALSE, metricStrength |-> Num(0), scopeSize |-> Num(0),
     evidenceStrength |-> Num(0), score |-> Num(0)]

\* metric values: missing, or a number
MetricValues ==
    {[present |-> FALSE, v |-> 0]}
        \cup {[present |-> TRUE, v |-> v] :
                v \in {-2, -1, 0, 1, 50, 100, 1000, 1000000, 2000000}}

MetricUnits == {Null, "percent", "users", "items"}

ScopeChoices ==
    {NoScope, Scope(TRUE, {}), Scope(TRUE, {"company-wide"}), Scope(TRUE, {"team"}),
     Scope(TRUE, {"enterprise", "team"}), Scope(TRUE, {"department", "project"})}

\* raw_text: empty, or a text with or without an action verb, of more than 50
\* characters or not
TextChoices ==
    {[empty |-> TRUE, verb |-> FALSE, long |-> FALSE]}
        \cup [empty : {FALSE}, verb : BOOLEAN, long : BOOLEAN]

AchievementInputs ==
    [metric_value : MetricValues, metric_unit : MetricUnits, scope : ScopeChoices,
     raw_text : TextChoices]

InitScore ==
    /\ now = 1
    /\ jobs = <<>>
    /\ waiting = <<>>
    /\ runs = <<>>
    /\ data = [u \in Users |-> {}]
    /\ outputs = [u \in Users |-> {}]
    /\ req = IdleReq(0, 0)
    /\ crashes = 0
    /\ slots = 0
    /\ pipelines = <<>>
    /\ overall = "unset"
    /\ companyAssets = <<>>
    /\ assets = <<>>
    /\ calls = <<>>
    /\ profile = [u \in Users |-> NoProfile]
    /\ placements = <<>>
    /\ completeness = <<>>
    /\ achievements = [u \in Users |-> <<>>]
    /\ rankings = <<>>
    /\ frame = <<>>
    /\ call \in {[fn |-> "calculateAchievementScore", arg |-> a, result |-> NoScore] :
                    a \in AchievementInputs}

\* score: calculateAchievementScore(achievement)
CalculateAchievementScore ==
    /\ call.fn = "calculateAchievementScore"
    /\ ~call.result.returned
    /\ call' = [call EXCEPT !.result = calculateAchievementScore(call.arg)]
    /\ UNCHANGED <<tables, frame, now, jobs, waiting, runs, data, outputs, req, crashes,
                   slots, pipelines, overall>>

NextScore == CalculateAchievementScore

ScoreSpec == InitScore /\ [][NextScore]_vars

-----------------------------------------------------------------------------
(* calculateOverallStatus alone, on every list of at most MaxLen statuses *)

\* the rows the status query selects: one per pipeline_name
StatusLists ==
    UNION {[1..n -> Statuses] : n \in 0..MaxLen}

Rows(f) == [i \in 1..Len(f) |-> [pipeline_name |-> Steps[i], status |-> f[i],
                                  error_message |-> Null]]

InitStatus ==
    /\ now = 1
    /\ jobs = <<>>
    /\ waiting = <<>>
    /\ runs = <<>>
    /\ data = [u \in Users |-> {}]
    /\ outputs = [u \in Users |-> {}]
    /\ req = IdleReq(0, 0)
    /\ crashes = 0
    /\ slots = 0
    /\ pipelines \in {Rows(f) : f \in StatusLists}
    /\ overall = "unset"
    /\ InitServices

\* overall: calculateOverallStatus(statuses)
CalculateOverallStatus ==
    /\ overall = "unset"
    /\ overall' = calculateOverallStatus(pipelines)
    /\ UNCHANGED <<tables, frame, call, now, jobs, waiting, runs, data, outputs, req, crashes, slots, pipelines>>

NextStatus == CalculateOverallStatus

StatusSpec == InitStatus /\ [][NextStatus]_vars

-----------------------------------------------------------------------------
(* Claims *)

\* the latest run record of (u, s); only used where one exists
LatestRun(u, s) == runs[SelectLatest(runs, u, s)]

HasRun(u, s) == SelectLatest(runs, u, s) # 0

\* the number of times the handler of job j has been entered
Starts(j) ==
    jobs[j].attemptsMade + jobs[j].stalledCount
        + (IF jobs[j].state \in {"active", "completed"} THEN 1 ELSE 0)

\* no worker was lost while it executed job j
NeverLost(j) == jobs[j].stalledCount = 0 /\ jobs[j].pc # "lost"

\* job j is the only job ever enqueued for its (user, step)
Sole(j) ==
    \A k \in JobIds : k # j => ~(jobs[k].user = jobs[j].user /\ jobs[k].step = jobs[j].step)

AnyStatus(ps, st) == \E i \in 1..Len(ps) : ps[i].status = st

\* C1: the overall status of a list of latest per-step statuses is not_started
\* for the empty list, else running if any step is running, else failed if any
\* step is failed, else completed if every step is succeeded, else pending.
C1_OverallStatus ==
    overall # "unset" =>
        /\ (Len(pipelines) = 0) => overall = "not_started"
        /\ (Len(pipelines) > 0 /\ AnyStatus(pipelines, "running")) => overall = "running"
        /\ (/\ Len(pipelines) > 0
            /\ ~AnyStatus(pipelines, "running")
            /\ AnyStatus(pipelines, "failed")) => overall = "failed"
        /\ (/\ Len(pipelines) > 0
            /\ \A i \in 1..Len(pipelines) : pipelines[i].status = "succeeded")
                => overall = "completed"
        /\ (/\ Len(pipelines) > 0
            /\ ~AnyStatus(pipelines, "running")
            /\ ~AnyStatus(pipelines, "failed")
            /\ \E i \in 1..Len(pipelines) : pipelines[i].status # "succeeded")
                => overall = "pending"

\* a list with a failed and a running step has been given the overall status running
C1_Witness ==
    /\ overall = "running"
    /\ AnyStatus(pipelines, "failed")
    /\ AnyStatus(pipelines, "succeeded")

\* the jobs of the full run, by step index
RunJob(i) == FindJob(jobs, req.jobIds[i])

\* C2: once a full run is enqueued for a user without earlier runs, the status
\* query reports completed only when the jobs of all seven steps have succeeded.
C2_CompletedOnlyWhenAllSucceeded ==
    (req.state = "returned" /\ getPipelineStatus(req.user).overall = "completed")
        => \A i \in 1..Len(Steps) : jobs[RunJob(i)].state = "completed"

\* the number of the first i adds of the full run that put a new job into the queue
NewJobsUpTo(i) == Cardinality({k \in 1..i : req.added[k]})

NewJobs == NewJobsUpTo(Len(req.added))

\* the adds of the full run so far, in step order: the i-th id is that of
\* (user, i-th step), and the jobs the call has appended to the queue are those
\* of the adds that found no job under their id, in the same order
AddsInOrder ==
    /\ Len(req.jobIds) = Len(req.added)
    /\ \A i \in 1..Len(req.jobIds) :
          /\ req.jobIds[i][1] = req.user
          /\ req.jobIds[i][2] = Steps[i]
          /\ RunJob(i) # 0
          /\ jobs[RunJob(i)].step = Steps[i]
          /\ req.added[i] <=> RunJob(i) > req.base
    /\ \A i \in 1..Len(req.jobIds) :
          req.added[i] => RunJob(i) = req.base + NewJobsUpTo(i)
    /\ Len(jobs) >= req.base + NewJobs

\* C3 as stated: queueFullPipeline adds exactly seven jobs, one per step in
\* the fixed order, and returns their seven ids in that order.
C3_SevenJobsAdded ==
    req.state = "returned" =>
        /\ Len(req.jobIds) = Len(Steps)
        /\ AddsInOrder
        /\ NewJobs = Len(Steps)

\* C3 amended: queueFullPipeline makes seven adds, one per step in the fixed
\* order, each after the previous one, and returns the seven ids in that
\* order; an add puts a new job into the queue unless the queue already holds
\* a job under the same id (same user, step and millisecond), so exactly seven
\* jobs are added when no such job exists, and fewer otherwise.
C3_SevenAddsInOrder ==
    /\ req.state = "adding" => (Len(req.jobIds) = req.next - 1 /\ AddsInOrder)
    /\ req.state = "returned" =>
          /\ Len(req.jobIds) = Len(Steps)
          /\ AddsInOrder
          /\ NewJobs <= Len(Steps)
          /\ (\A i \in 1..Len(Steps) : RunJob(i) > req.base) <=> NewJobs = Len(Steps)

\* a full run has returned after adding seven new jobs behind an earlier job
C3_Witness ==
    /\ req.state = "returned"
    /\ req.base > 0
    /\ NewJobs = Len(Steps)

C5_NoRunningForever ==
    (\A j \in JobIds : ~Live(j)) =>
        \A u \in Users :
            ~AnyStatus(getPipelineStatus(u).pipelines, "running")

\* C6: a job that was enqueued and not yet dequeued has a run record with
\* status queued for its (user, step).
C6_QueuedRecord ==
    \A j \in JobIds :
        (jobs[j].state = "waiting" /\ Starts(j) = 0) =>
            /\ HasRun(jobs[j].user, jobs[j].step)
            /\ LatestRun(jobs[j].user, jobs[j].step).status = "queued"

\* C7: a job of a step other than ingest whose work found the data it needs
\* absent ends succeeded, without output, without a retry, and never records
\* failed.
C7_AbsentDataSucceeds ==
    \A j \in JobIds :
        (jobs[j].step # "ingest" /\ jobs[j].absent) =>
            /\ jobs[j].outcome = "ok"
            /\ jobs[j].wrote # "failed"
            /\ jobs[j].state \in {"active", "completed"}
            /\ jobs[j].attemptsMade = 0
            /\ jobs[j].step \notin outputs[jobs[j].user]

\* C8: an ingest job without documentId fails on its first attempt and is not
\* retried: its handler is entered once.
C8_NoDocumentNoRetry ==
    \A j \in JobIds :
        (jobs[j].step = "ingest" /\ ~jobs[j].hasDoc /\ NeverLost(j)) =>
            /\ Starts(j) <= 1
            /\ jobs[j].state # "delayed"

C10_MarkRunningIdempotent ==
    \A u \in Users, s \in StepSet :
        LET once == updatePipelineStatus(runs, u, s, "running", NoError)
            twice == updatePipelineStatus(once, u, s, "running", NoError)
            latest == twice[SelectLatest(twice, u, s)]
        IN  /\ twice = once
            /\ CountRuns(twice, u, s) = Max2(1, CountRuns(runs, u, s))
            /\ latest.status = "running"
            /\ latest.error_message = Null
            /\ latest.completed_at = Null

\* a redelivered job has marked its step running a second time in succession
C10_Witness ==
    \E j \in JobIds :
        /\ jobs[j].stalledCount = 1
        /\ jobs[j].attemptsMade = 0
        /\ jobs[j].pc = "work"
        /\ jobs[j].wrote = "running"
        /\ CountRuns(runs, jobs[j].user, jobs[j].step) = 1
        /\ LatestRun(jobs[j].user, jobs[j].step).status = "running"

\* every job of the full run has finished in the queue
RunFinished ==
    /\ req.state = "returned"
    /\ \A i \in 1..Len(Steps) : jobs[RunJob(i)].state \in {"completed", "failed"}

\* C11: a job that fails, also after its last attempt, does not block the
\* other jobs of the run: under fair scheduling every job of an enqueued full
\* run is executed and finishes, completed or failed, and the step of a
\* finished job whose handler records its status is recorded succeeded for a
\* completed job and failed for a failed one.
C11_SiblingsFinish ==
    /\ (req.state = "returned") ~> RunFinished
    /\ [](req.state = "returned" =>
            \A i \in 1..Len(Steps) :
                LET jb == jobs[RunJob(i)]
                IN  /\ jb.state = "completed" => Starts(RunJob(i)) >= 1
                    /\ (jb.state = "completed" /\ jb.step # "completeness") =>
                          LatestRun(jb.user, jb.step).status = "succeeded"
                    /\ jb.state = "failed" =>
                          /\ Starts(RunJob(i)) = Attempts
                          /\ LatestRun(jb.user, jb.step).status = "failed")

\* the ingest job of the run has failed after its last attempt and the six
\* other jobs have finished, each after being executed
C11_Witness ==
    /\ RunFinished
    /\ jobs[RunJob(1)].state = "failed"
    /\ jobs[RunJob(1)].attemptsMade = Attempts
    /\ \A i \in 2..Len(Steps) : Starts(RunJob(i)) >= 1
    /\ \E i \in 2..Len(Steps) : jobs[RunJob(i)].state = "completed"

CompanySet == {Companies[i] : i \in 1..Len(Companies)}

\* the provider calls a run (job) made for a company, in order
CallsOf(cs, j, c) == SelectSeq(cs, LAMBDA x : x.job = j /\ x.company = c)

\* the provider calls made for a company by any run, in order
CallsFor(cs, c) == SelectSeq(cs, LAMBDA x : x.company = c)

\* the logo assets created for a company
AssetsOf(as, c) == {i \in 1..Len(as) : as[i].label = c}

\* calls made in the order of Providers, each after a call that returned nothing
InCascadeOrder(cs) ==
    /\ Len(cs) <= Len(Providers)
    /\ \A i \in 1..Len(cs) :
          /\ cs[i].provider = Providers[i]
          /\ i < Len(cs) => cs[i].result = Null

\* the last call returned a logo and was made to the given provider
ResolvedBy(cs, source) ==
    /\ cs # <<>>
    /\ cs[Len(cs)].result = Url
    /\ cs[Len(cs)].provider = source

\* C12: for each company a run resolves, the providers are called in the order
\* Brandfetch, Logo.dev, Ideogram, each only after every earlier one returned
\* nothing, none after the first that returned a logo, and the source reported
\* and saved is that first successful provider; the legacy resolver
\* fetchCompanyLogo does the same.
C12_ProviderCascade ==
    /\ \A j \in DOMAIN frame : \A c \in CompanySet :
          LET cs == CallsOf(calls, j, c)
          IN  /\ InCascadeOrder(cs)
              /\ (Companies[frame[j].company] = c
                    /\ frame[j].stage \in {"download", "asset", "link"})
                        => ResolvedBy(cs, frame[j].source)
              /\ \A i \in 1..Len(frame[j].results) :
                    (frame[j].results[i].company = c /\ frame[j].results[i].success)
                        => ResolvedBy(cs, frame[j].results[i].source)
    /\ \A a \in 1..Len(assets) :
          \E j \in DOMAIN frame : ResolvedBy(CallsOf(calls, j, assets[a].label), assets[a].source)
    /\ \A res \in [1..Len(Providers) -> ProviderResults] :
          LET out == fetchCompanyLogo(res)
              n == Len(out.invoked)
          IN  /\ \A i \in 1..n : out.invoked[i] = Providers[i]
              /\ \A i \in 1..(n - 1) : res[i] = Null
              /\ IF \A i \in 1..Len(Providers) : res[i] = Null
                 THEN out.source = "fallback" /\ n = Len(Providers)
                 ELSE res[n] = Url /\ out.source = Providers[n]

\* Brandfetch returned nothing, Logo.dev returned a logo, Ideogram was not
\* called, and the logo was saved with source logo.dev
C12_Witness ==
    \E j \in DOMAIN frame :
        /\ Len(CallsOf(calls, j, "c1")) = 2
        /\ CallsOf(calls, j, "c1")[1].result = Null
        /\ CallsOf(calls, j, "c1")[2].result = Url
        /\ \E i \in 1..Len(frame[j].results) :
              frame[j].results[i] = [company |-> "c1", success |-> TRUE, source |-> "logo.dev"]
        /\ \E a \in 1..Len(assets) : assets[a] = [label |-> "c1", source |-> "logo.dev"]

\* every provider was called for the company and returned nothing
Exhausted(j, c) ==
    /\ Len(CallsOf(calls, j, c)) = Len(Providers)
    /\ \A i \in 1..Len(Providers) : CallsOf(calls, j, c)[i].result = Null

C14_ResolvedLogoIsKept ==
    [][\A c \in CompanySet :
          LinksOf(companyAssets, c) # {} =>
              /\ CallsFor(calls', c) = CallsFor(calls, c)
              /\ AssetsOf(assets', c) = AssetsOf(assets, c)
              /\ LinksOf(companyAssets', c) = LinksOf(companyAssets, c)]_vars

\* a later run has passed a company whose logo an earlier run had saved,
\* without a provider call, and has gone on to resolve the next company
C14_Witness ==
    \E j \in DOMAIN frame, k \in DOMAIN frame :
        /\ k < j
        /\ jobs[k].state = "completed"
        /\ ResolvedBy(CallsOf(calls, k, "c1"), "brandfetch")
        /\ Cardinality(LinksOf(companyAssets, "c1")) = 1
        /\ Cardinality(AssetsOf(assets, "c1")) = 1
        /\ CallsOf(calls, j, "c1") = <<>>
        /\ CallsOf(calls, j, "c2") # <<>>
        /\ jobs[j].pc = "exit"

\* C15: determineStrategy gives complete for a score of at least 0.9, polish from
\* 0.7 up to 0.9, context from 0.5 up to 0.7, qualitative from 0.3 up to 0.5,
\* template above 0 up to 0.3, and hide for 0.
C15_StrategyThresholds ==
    (call.fn = "determineStrategy" /\ call.result # Null) =>
        LET tenths == 10 * call.arg
        IN  /\ tenths >= 9 * Unit => call.result = "complete"
            /\ (7 * Unit <= tenths /\ tenths < 9 * Unit) => call.result = "polish"
            /\ (5 * Unit <= tenths /\ tenths < 7 * Unit) => call.result = "context"
            /\ (3 * Unit <= tenths /\ tenths < 5 * Unit) => call.result = "qualitative"
            /\ (0 < tenths /\ tenths < 3 * Unit) => call.result = "template"
            /\ call.arg = 0 => call.result = "hide"

\* the score 0.9 itself has been given the strategy complete
C15_Witness ==
    /\ call.fn = "determineStrategy"
    /\ 10 * call.arg = 9 * Unit
    /\ call.result = "complete"

\* the completeness frames: jobs whose scores have been calculated
Calculated == {j \in DOMAIN frame : jobs[j].step = "completeness"}

\* C16: for every section and every state of the user's data, the strategy a
\* completeness run reports and persists equals determineStrategy of the
\* section's score; in particular a section with score 0 gets strategy hide.
C16_StrategyFollowsScore ==
    /\ \A j \in Calculated : \A i \in 1..Len(frame[j].scores) :
          /\ frame[j].scores[i].strategy = determineStrategy(frame[j].scores[i].score)
          /\ frame[j].scores[i].score = 0 => frame[j].scores[i].strategy = "hide"
    /\ \A i \in 1..Len(completeness) :
          /\ completeness[i].strategy = determineStrategy(completeness[i].score)
          /\ completeness[i].score = 0 => completeness[i].strategy = "hide"

\* C17: after any sequence of step executions, repeated images runs included,
\* the score a completeness run computes and persists for every section is
\* within [0, 1].
C17_ScoreInRange ==
    /\ \A j \in Calculated : \A i \in 1..Len(frame[j].scores) :
          0 <= frame[j].scores[i].score /\ frame[j].scores[i].score <= Unit
    /\ \A i \in 1..Len(completeness) :
          0 <= completeness[i].score /\ completeness[i].score <= Unit

SectionSet == {"images", "achievements", "logos", "work_experience", "skills", "story"}

\* C18: after any sequence and interleaving of completeness runs of a user,
\* two concurrent runs included, the store holds at most one completeness
\* record per (user, section), and once the runs are over it carries the
\* score, strategy and missing fields of the most recently completed run.
C18_OneRecordPerSection ==
    \A u \in Users :
        /\ \A section \in SectionSet :
              Cardinality(CompletenessOf(completeness, u, section)) <= 1
        /\ ((\A j \in JobIds : jobs[j].state = "completed") /\ jobs # <<>>) =>
              \A i \in 1..Len(calculateAllCompleteness(u)) :
                  \E k \in 1..Len(completeness) :
                      completeness[k] = CompletenessRow(u, calculateAllCompleteness(u)[i])

\* the rankings of a user
RankingsOf(u) == {i \in 1..Len(rankings) : rankings[i].user_id = u}

\* C19: for a user with zero achievements the achievements job ends with
\* persisted status succeeded and writes an empty ranking snapshot: a ranking
\* of the user with zero items.
C19_EmptySnapshot ==
    \A j \in JobIds :
        (/\ jobs[j].step = "achievements"
         /\ achievements[jobs[j].user] = <<>>
         /\ jobs[j].pc = "exit" \/ jobs[j].state = "completed") =>
            /\ jobs[j].wrote = "succeeded"
            /\ \E i \in RankingsOf(jobs[j].user) : rankings[i].items = <<>>

\* the position of the achievement with this id in the list the run fetched
InputIndex(input, id) == CHOOSE i \in 1..Len(input) : input[i].id = id

\* C20: the ranking is a stable descending sort by score: the ranked list
\* holds every fetched achievement once, ranks are 1..n without gaps, scores do
\* not increase along increasing rank, and of two achievements with equal
\* score the one earlier in the fetched list has the smaller rank; the saved
\* items carry these ranks and scores.
C20_StableRanking ==
    /\ \A j \in DOMAIN frame :
          jobs[j].step = "achievements" =>
              LET input == frame[j].input
                  ranked == frame[j].ranked
              IN  /\ Len(ranked) = Len(input)
                  /\ \A i \in 1..Len(input) :
                        \E k \in 1..Len(ranked) :
                            ranked[k].id = input[i].id /\ ranked[k].score = input[i].score
                  /\ \A k \in 1..Len(ranked) : ranked[k].rank = k
                  /\ \A k \in 1..Len(ranked), m \in 1..Len(ranked) :
                        k < m =>
                            /\ ranked[k].score >= ranked[m].score
                            /\ ranked[k].score = ranked[m].score =>
                                  InputIndex(input, ranked[k].id) < InputIndex(input, ranked[m].id)
                  /\ \A k \in 1..Len(frame[j].top) : frame[j].top[k] = ranked[k]
    /\ \A r \in 1..Len(rankings) :
          \A k \in 1..Len(rankings[r].items) :
              /\ rankings[r].items[k].rank = k
              /\ k > 1 => rankings[r].items[k - 1].score >= rankings[r].items[k].score

\* a ranking has been saved in which the third achievement fetched, of the
\* highest score, has rank 1 and the first two, of equal score, follow in the
\* order in which they were fetched
C20_Witness ==
    \E r \in 1..Len(rankings) :
        /\ Len(rankings[r].items) = 3
        /\ rankings[r].items[1].achievement_id = 3
        /\ rankings[r].items[2].achievement_id = 1
        /\ rankings[r].items[3].achievement_id = 2
        /\ rankings[r].items[2].score = rankings[r].items[3].score
        /\ rankings[r].items[1].score > rankings[r].items[2].score

\* the rows of the user's achievements that have been enhanced
Enhanced(u) == {achievements[u][i].id : i \in {k \in 1..Len(achievements[u]) :
                                                   achievements[u][k].impact_statement}}

\* C21: the top selection that is enhanced and saved holds exactly
\* min(6, number of achievements) items and is the prefix of the ranked list:
\* its k-th item is the achievement of rank k, only achievements of the
\* selection are enhanced, and the saved items are those of the selection.
C21_TopIsPrefix ==
    /\ \A j \in DOMAIN frame :
          jobs[j].step = "achievements" =>
              LET ranked == frame[j].ranked
                  top == frame[j].top
                  ids == {top[k].id : k \in 1..Len(top)}
              IN  /\ Len(top) = Min2(6, Len(frame[j].input))
                  /\ \A k \in 1..Len(top) : top[k] = ranked[k] /\ top[k].rank = k
                  /\ Enhanced(jobs[j].user) \subseteq ids
                  /\ frame[j].stage \in {"delete", "insert", "returned"} =>
                        Enhanced(jobs[j].user) = ids
                  /\ frame[j].stage = "returned" =>
                        \E r \in RankingsOf(jobs[j].user) :
                            /\ Len(rankings[r].items) = Len(top)
                            /\ \A k \in 1..Len(top) :
                                  rankings[r].items[k] =
                                      [achievement_id |-> ranked[k].id, rank |-> k,
                                       score |-> ranked[k].score]
    /\ \A r \in 1..Len(rankings) : Len(rankings[r].items) <= 6

\* the ranking of a user with seven achievements has been saved with six
\* items, the achievement of rank 7 left out and not enhanced
C21_Witness ==
    \E j \in DOMAIN frame, r \in 1..Len(rankings) :
        /\ Len(frame[j].input) = 7
        /\ frame[j].stage = "returned"
        /\ Len(rankings[r].items) = 6
        /\ frame[j].ranked[7].id \notin Enhanced(jobs[j].user)

\* the achievement of the scenario: 2,000,000 users, company-wide
IsScenario(a) ==
    /\ a.metric_value = [present |-> TRUE, v |-> 2000000]
    /\ a.metric_unit = "users"
    /\ a.scope = Scope(TRUE, {"company-wide"})

Scored == call.fn = "calculateAchievementScore" /\ call.result.returned

\* C22 as stated: an achievement with metric value 2,000,000, unit users and
\* scope company-wide gets metricStrength 1.0, scopeSize 0.9, evidenceStrength
\* at least 0.9 and an overall score of 0.94.
C22_ScenarioScore094 ==
    (Scored /\ IsScenario(call.arg)) =>
        /\ call.result.metricStrength = Num(Scale)
        /\ call.result.scopeSize = Num((9 * Scale) \div 10)
        /\ call.result.evidenceStrength.kind = "num"
        /\ call.result.evidenceStrength.v >= (9 * Scale) \div 10
        /\ call.result.score = Num(94)

\* C22 amended: an achievement with metric value 2,000,000, unit users and
\* scope company-wide gets metricStrength 1.0 (clamped), scopeSize 0.9,
\* evidenceStrength 1.0 (0.5 + 0.3 + 0.2, whatever its text) and an overall
\* score of 0.97 (0.4*1.0 + 0.3*0.9 + 0.3*1.0).
C22_ScenarioScore097 ==
    (Scored /\ IsScenario(call.arg)) =>
        /\ call.result.metricStrength = Num(Scale)
        /\ call.result.scopeSize = Num((9 * Scale) \div 10)
        /\ call.result.evidenceStrength = Num(Scale)
        /\ call.result.score = Num(97)

\* the achievement of the scenario, with a long text holding an action verb,
\* has been scored
C22_Witness ==
    /\ Scored
    /\ IsScenario(call.arg)
    /\ call.arg.raw_text = [empty |-> FALSE, verb |-> TRUE, long |-> TRUE]
    /\ call.result.score = Num(97)

\* C23: calculateMetricStrength returns exactly 0.3 for every achievement
\* without a quantified metric (value or unit missing), and a value in
\* [0.3, 1.0] for every achievement with a numeric metric and unit, whatever
\* the metric's magnitude.
C23_MetricStrengthRange ==
    Scored =>
        LET a == call.arg
            m == call.result.metricStrength
        IN  /\ (~a.metric_value.present \/ a.metric_unit = Null) =>
                  m = Num((3 * Scale) \div 10)
            /\ (a.metric_value.present /\ a.metric_unit # Null) =>
                  /\ m.kind = "num"
                  /\ (3 * Scale) \div 10 <= m.v
                  /\ m.v <= Scale

\* C24: ranking snapshots are immutable and superseded, not replaced in
\* place: no step of a scoring run modifies or deletes a snapshot the store
\* holds, a run only adds one, and a user who has a snapshot has one in every
\* later state of the store, the states in the middle of a run included.
C24_SnapshotsImmutable ==
    [][/\ Len(rankings') >= Len(rankings)
       /\ \A i \in 1..Len(rankings) : rankings'[i] = rankings[i]
       /\ \A u \in Users : RankingsOf(u) # {} => RankingsOf(u)' # {}]_vars

\* the place of a strategy in the order of the tests of determineStrategy,
\* from hide (0) to complete (5)
StrategyRank(strategy) ==
    CASE strategy = "hide" -> 0
      [] strategy = "template" -> 1
      [] strategy = "qualitative" -> 2
      [] strategy = "context" -> 3
      [] strategy = "polish" -> 4
      [] strategy = "complete" -> 5

\* C25: determineStrategy is monotonic: for all scores a > b in [0, 1] the
\* strategy for a is never a worse bucket than the strategy for b under the
\* order complete > polish > context > qualitative > template > hide.
C25_StrategyMonotonic ==
    (call.fn = "determineStrategy" /\ call.result # Null /\ call.arg <= Unit) =>
        \A b \in 0..Unit :
            /\ call.arg > b => StrategyRank(call.result) >= StrategyRank(determineStrategy(b))
            /\ call.arg < b => StrategyRank(call.result) <= StrategyRank(determineStrategy(b))

\* the score 0.3 has been given qualitative, and the scores below it are
\* given the lower buckets template and hide
C25_Witness ==
    /\ call.fn = "determineStrategy"
    /\ 10 * call.arg = 3 * Unit
    /\ call.result = "qualitative"
    /\ determineStrategy(call.arg - 1) = "template"
    /\ determineStrategy(0) = "hide"

\* the jobs of (u, s) whose id carries the timestamp t
JobsAt(js, u, s, t) == {j \in 1..Len(js) : js[j].id = JobId(u, s, t)}

\* the timestamp of a job id
IdTime(id) == id[3]

Finished(j) == jobs[j].state \in {"completed", "failed"}

\* C26: two queuePipelineStep calls for the same user and step at the same
\* timestamp produce the same job id, so that at most one job exists for
\* them: the second call adds nothing; a call at a timestamp at which no job
\* of the user and step was added produces a new id and a new job, whether
\* or not an earlier job of the step is queued or running; and every job so
\* added is executed until it has completed or failed.
C26_DuplicateSubmission ==
    /\ [][req'.budget # req.budget =>
            \A u \in Users :
                IF JobsAt(jobs, u, RepeatedStep, now') # {}
                THEN jobs' = jobs /\ waiting' = waiting
                ELSE /\ Len(jobs') = Len(jobs) + 1
                     /\ JobsAt(jobs', u, RepeatedStep, now') = {Len(jobs')}
                     /\ jobs'[Len(jobs')].state = "waiting"
                     /\ waiting' = Append(waiting, Len(jobs'))
                     /\ \A j \in 1..Len(jobs) : jobs'[j] = jobs[j]]_vars
    /\ [](\A j \in JobIds, k \in JobIds :
            /\ j # k => jobs[j].id # jobs[k].id
            /\ j < k => IdTime(jobs[j].id) < IdTime(jobs[k].id)
            /\ Finished(j) => Starts(j) >= 1)
    /\ \A j \in 1..MaxCalls : (Len(jobs) >= j) ~> (Len(jobs) >= j /\ Finished(j))

\* a second request of the step was made at a later timestamp while the job
\* of the first was running; it got a job of its own and both were executed
C26_Witness ==
    /\ Len(jobs) = 2
    /\ jobs[1].id = JobId("u1", RepeatedStep, 1)
    /\ jobs[2].id = JobId("u1", RepeatedStep, 2)
    /\ jobs[1].state = "completed"
    /\ jobs[2].state = "completed"
    /\ Starts(1) >= 1
    /\ Starts(2) >= 1
    /\ CountRuns(runs, "u1", RepeatedStep) >= 1

\* C27: the persisted status of a step is failed only once its job's attempts
\* are exhausted: while the only job of a step is waiting, active or delayed
\* with attempts remaining, the step's latest persisted status is not failed,
\* and the overall status derived from it is not failed.
C27_FailedOnlyWhenExhausted ==
    \A j \in JobIds :
        (Sole(j) /\ Live(j) /\ jobs[j].attemptsMade < Attempts) =>
            /\ HasRun(jobs[j].user, jobs[j].step) =>
                  LatestRun(jobs[j].user, jobs[j].step).status # "failed"
            /\ getPipelineStatus(jobs[j].user).overall # "failed"

\* C28: for each of the seven step kinds the job handler persists status
\* running for (user, step) before it invokes the step's work, and persists
\* succeeded or failed for (user, step) after the work has returned or thrown:
\* a job at its work has written running and a run record of its step
\* exists, and a job at its exit or completed has written the terminal status
\* of its outcome.
C28_EveryHandlerRecords ==
    \A j \in JobIds :
        /\ (jobs[j].state = "active" /\ jobs[j].pc = "work") =>
              /\ jobs[j].wrote = "running"
              /\ HasRun(jobs[j].user, jobs[j].step)
              /\ Sole(j) => LatestRun(jobs[j].user, jobs[j].step).status = "running"
        /\ ((jobs[j].state = "active" /\ jobs[j].pc = "exit") \/ jobs[j].state = "completed") =>
              /\ jobs[j].wrote = TerminalStatus(jobs[j].outcome)
              /\ HasRun(jobs[j].user, jobs[j].step)
              /\ Sole(j) => LatestRun(jobs[j].user, jobs[j].step).status
                                = TerminalStatus(jobs[j].outcome)

\* the jobs of (u, s) that have made a status write
Writers(u, s) ==
    {j \in JobIds : jobs[j].user = u /\ jobs[j].step = s
                        /\ (jobs[j].wrote # "none" \/ jobs[j].attemptsMade > 0
                                \/ jobs[j].state = "completed")}

\* C29: in every interleaving of two workers executing updatePipelineStatus
\* for the same (user, step), both starting while no record exists included,
\* the status store holds exactly one run record for the pair.
C29_OneRunRecord ==
    \A u \in Users, s \in StepSet :
        /\ CountRuns(runs, u, s) <= 1
        /\ Writers(u, s) # {} => CountRuns(runs, u, s) = 1

\* the run records of (u, s) with this status and error message
RunsWith(u, s, status, error) ==
    {i \in 1..Len(runs) : /\ runs[i].user_id = u
                          /\ runs[i].pipeline_name = s
                          /\ runs[i].status = status
                          /\ runs[i].error_message = error}

\* C30: when two jobs for the same (user, step) are in flight at the same
\* time, the terminal status a job recorded is never overwritten by a write
\* of the other job: while a job that has recorded its terminal status is
\* still in its handler, a run record of its step carries the status and
\* error message it recorded.
C30_OwnRunRecord ==
    \A j \in JobIds :
        (jobs[j].state = "active" /\ jobs[j].pc = "exit") =>
            RunsWith(jobs[j].user, jobs[j].step, TerminalStatus(jobs[j].outcome),
                     TerminalError(jobs[j].outcome)) # {}

\* C31: executing the ingest step more than once for the same user and
\* document leaves the work experience, achievement and skill records that
\* executing it once leaves: the records of the structured document, each once.
C31_IngestIdempotent ==
    \A u \in Users :
        LET structured == StructuredResume(data[u])
        IN  /\ Len(profile[u].exps) <= Len(structured.workExperiences)
            /\ Len(achievements[u]) <= Len(structured.achievements)
            /\ profile[u].skills <= structured.skills

\* C32: in every execution, those in which a write to the status store fails
\* included, the work of a job of a step whose handler records its status
\* does not begin until running is persisted for (user, step), and the job
\* does not leave the worker until its terminal status is persisted.
C32_PersistedBeforeProceeding ==
    \A j \in JobIds :
        (jobs[j].step # "completeness" /\ Sole(j) /\ NeverLost(j) /\ jobs[j].state = "active") =>
            /\ jobs[j].pc = "work" =>
                  /\ HasRun(jobs[j].user, jobs[j].step)
                  /\ LatestRun(jobs[j].user, jobs[j].step).status = "running"
            /\ jobs[j].pc = "exit" =>
                  /\ HasRun(jobs[j].user, jobs[j].step)
                  /\ LatestRun(jobs[j].user, jobs[j].step).status
                        = TerminalStatus(jobs[j].outcome)

\* C33: in every interleaving of logos jobs that process the same company,
\* the company has at most one persisted logo link, and a logos run that
\* finds a link of a company does not resolve that company again (it asks no
\* provider for it).
C33_OneLinkPerCompany ==
    /\ [](\A c \in 1..Len(Companies) :
            Cardinality(LinksOf(companyAssets, Companies[c])) <= 1)
    /\ [][\A j \in JobIds :
            (InLogos(j, "check") /\ LinksOf(companyAssets, Companies[frame[j].company]) # {}) =>
                frame'[j].stage # "brandfetch"]_vars

WithoutEnhancement(row, old) ==
    [row EXCEPT !.impact_statement = old.impact_statement,
                !.provenance = old.provenance,
                !.confidence = old.confidence,
                !.requires_review = old.requires_review]

\* C35: no step of the achievements run changes an achievement's raw_text: a
\* step changes no field of an achievement other than impact_statement,
\* provenance, confidence and requires_review, adds or removes no
\* achievement, and changes only achievements that a running job ranked
\* among the top 6.
C35_OnlyEnhancementFields ==
    [][\A u \in Users :
          /\ Len(achievements'[u]) = Len(achievements[u])
          /\ \A i \in 1..Len(achievements[u]) :
                LET old == achievements[u][i]
                    new == achievements'[u][i]
                IN  /\ new.raw_text = old.raw_text
                    /\ WithoutEnhancement(new, old) = old
                    /\ new # old =>
                          \E j \in JobIds :
                              /\ InAchievements(j, "enhance")
                              /\ jobs[j].user = u
                              /\ \E k \in 1..Len(frame[j].ranked) :
                                    /\ frame[j].ranked[k].id = old.id
                                    /\ frame[j].ranked[k].rank <= TopCount]_vars

\* a run over more than six achievements has returned, and an achievement
\* has been enhanced
C35_Witness ==
    \E j \in JobIds :
        /\ jobs[j].step = "achievements"
        /\ j \in DOMAIN frame
        /\ frame[j].stage = "returned"
        /\ Len(frame[j].ranked) > TopCount
        /\ \E i \in 1..Len(achievements[jobs[j].user]) :
              achievements[jobs[j].user][i].provenance = "model_polish"

\* C36: every run record has completed_at set if and only if its status is
\* succeeded or failed, and an error_message only if its status is failed.
C36_RunRecordShape ==
    \A i \in 1..Len(runs) :
        /\ runs[i].completed_at # Null <=> runs[i].status \in {"succeeded", "failed"}
        /\ runs[i].error_message # Null => runs[i].status = "failed"

\* the running of a retry has been written over the failed of the attempt
\* before it
C36_Witness ==
    \E j \in JobIds :
        /\ jobs[j].state = "active"
        /\ jobs[j].attemptsMade >= 1
        /\ jobs[j].pc = "work"
        /\ HasRun(jobs[j].user, jobs[j].step)
        /\ LatestRun(jobs[j].user, jobs[j].step).status = "running"
        /\ LatestRun(jobs[j].user, jobs[j].step).error_message = Null
        /\ LatestRun(jobs[j].user, jobs[j].step).completed_at = Null

\* C37: no run record ever has status canceled: the status of every run
\* record is running, succeeded or failed.
C37_NeverCanceled ==
    \A i \in 1..Len(runs) : runs[i].status \in {"running", "succeeded", "failed"}

\* a job has been retried and has left the queue for good with its last
\* attempt failed
C37_Witness ==
    \E j \in JobIds :
        /\ jobs[j].state = "failed"
        /\ jobs[j].attemptsMade = Attempts
        /\ HasRun(jobs[j].user, jobs[j].step)
        /\ LatestRun(jobs[j].user, jobs[j].step).status = "failed"

\* the steps of the jobs put into the queue since the request arrived
EnqueuedSteps ==
    [i \in 1..(Len(jobs) - req.first) |-> jobs[req.first + i].step]

\* C38: when a run request has been answered, the jobs it put into the queue
\* are: given a step list, one job per listed step in list order and no
\* others; given no step list but a documentId, the seven steps of the full
\* run; given neither, none, and the answer is a 400 error.
C38_RunRequestCases ==
    (req.state = "answered" /\ req.response # NoResponse) =>
        /\ req.body.hasSteps => EnqueuedSteps = req.body.steps
        /\ (~req.body.hasSteps /\ req.body.documentId) => EnqueuedSteps = Steps
        /\ (~req.body.hasSteps /\ ~req.body.documentId) =>
              (req.response = 400 /\ EnqueuedSteps = <<>>)

====
